---- MODULE Spec2Model ----
(***************************************************************************)
(* A model of the vimib toolchain: the bytecode virtual machine            *)
(* (libvm/src/vm.rs), the module and its functions (libvm/src/module.rs,   *)
(* libvm/src/function.rs), the opcode generator                             *)
(* (libcodegen/src/opcode.rs), and the lexer and the parser                *)
(* (libparser/src/lexer.rs, libparser/src/parser).                         *)
(*                                                                         *)
(* Bytes are the integers 0..255.  Offsets (Vm.index, branch operands,     *)
(* constant indices, register slots) are 0-based as in the source; TLA+    *)
(* sequences are 1-based, so the byte at offset i of s is s[i + 1].        *)
(*                                                                         *)
(* Not modelled: the arms of Vm::execute that compute on f32 (ADD_F..MOD_F, *)
(* GT_F..LE_F) and the Float arm of gen_expr (no input of this model has a *)
(* float); the STO_V and LOAD_V arms, whose opcode values consts.rs does   *)
(* not define; the is_debug trace, which changes no state.                 *)
(***************************************************************************)
EXTENDS Integers, Sequences, FiniteSets, TLC

VARIABLES
    input,            \* the case under execution (what was handed to the toolchain)
    overflow_checks,  \* build profile: TRUE = arithmetic overflow panics (debug), FALSE = wraps (release)
    module,           \* Module { constants, functions }
    vms,              \* the chain of live Vm values, the executing one last (CALL nests Vm::run)
    stdout,           \* what the VIRTUAL host calls have printed so far
    status,           \* "building", "running", "returned" (run_main came back), "panicked",
                      \* or "rejected" (the generator aborted)
    result,           \* the bytes the outermost Function::run returned
    last_ret,         \* the bytes the most recent Function::run returned
    gen_info,         \* layout facts recorded while generating (ifs, loops, breaks, parameters)
    calls,            \* the calls a client made on the Module under construction, in order
    lexer,            \* Lexer { tokens: Tokenizer { input, pos } }
    returned,         \* what the most recent call on the lexer or the parser returned
    stderr,           \* the errors reported through ParseContext::error, in order
    cuts              \* the raw tokens the scanner has cut for Lexer::next, trivia included

vars ==
    <<input, overflow_checks, module, vms, stdout, status, result, last_ret, gen_info, calls,
      lexer, returned, stderr, cuts>>

(***************************************************************************)
(* Opcodes, libvm/src/consts.rs                                            *)
(***************************************************************************)
NOP == 0
PUSH_I == 1
ADD_I == 12
SUB_I == 13
MUL_I == 14
DIV_I == 15
MOD_I == 16
NEG_I == 24
ADD_F == 44
SUB_F == 45
MUL_F == 46
DIV_F == 47
MOD_F == 48
NE == 17
EQ == 18
GT_I == 19
LT_I == 20
LE_I == 21
GE_I == 22
GT_F == 35
LT_F == 36
LE_F == 37
GE_F == 38
NOT == 23
CMP_I == 32
IF_T == 160
IF_F == 161
IF_NE == 162
IF_EQ == 163
IF_GT == 164
IF_LT == 165
IF_LE == 166
IF_GE == 167
DUP_I == 223
GOTO == 192
LDC == 250
LOAD_I == 251
STO_I == 252
CALL == 253
VIRTUAL == 254
RET_I == 255

(***************************************************************************)
(* i32 and byte helpers                                                    *)
(***************************************************************************)
I32_MAX == 2147483647
I32_MIN == (-I32_MAX) - 1

Byte == 0..255

Reverse(s) == [i \in 1..Len(s) |-> s[Len(s) + 1 - i]]

\* `x as u8`: the low eight bits
as_u8(x) == x % 256

\* byteorder: write_i32::<LittleEndian>, two's complement, least significant byte first
write_i32_LittleEndian(v) ==
    << v % 256, (v \div 256) % 256, (v \div 65536) % 256, (v \div 16777216) % 256 >>

\* byteorder: read_i32::<LittleEndian>
read_i32_LittleEndian(b) ==
    (16777216 * (IF b[4] >= 128 THEN b[4] - 256 ELSE b[4])) + 65536 * b[3] + 256 * b[2] + b[1]


(***************************************************************************)
(* The host's i32 operators as the VM uses them (`lhs + rhs`, `-n`, ...):  *)
(* an overflowing +, -, * or unary - panics when the build checks overflow *)
(* and wraps modulo 2^32 otherwise; / and % panic on a zero divisor and on *)
(* i32::MIN / -1 in every build.  Each yields [panic, val].                *)
(***************************************************************************)
add_overflows(a, b) == (b > 0 /\ a > I32_MAX - b) \/ (b < 0 /\ a < I32_MIN - b)

wrapping_add(a, b) ==
    IF ~add_overflows(a, b) THEN a + b
    ELSE IF b > 0 THEN (a + I32_MIN) + (b + I32_MIN)
    ELSE (a - I32_MIN) + (b - I32_MIN)

sub_overflows(a, b) == (b < 0 /\ a > I32_MAX + b) \/ (b > 0 /\ a < I32_MIN + b)

wrapping_sub(a, b) ==
    IF ~sub_overflows(a, b) THEN a - b
    ELSE IF b < 0 THEN (a + I32_MIN) - (b - I32_MIN)
    ELSE (a - I32_MIN) - (b + I32_MIN)

\* the low 32 bits of the product of two i32 given by their bytes x and y, by
\* long multiplication
mul_bytes(x, y) ==
    LET p0 == x[1] * y[1]
        p1 == x[1] * y[2] + x[2] * y[1] + (p0 \div 256)
        p2 == x[1] * y[3] + x[2] * y[2] + x[3] * y[1] + (p1 \div 256)
        p3 == x[1] * y[4] + x[2] * y[3] + x[3] * y[2] + x[4] * y[1] + (p2 \div 256)
    IN  read_i32_LittleEndian(<< p0 % 256, p1 % 256, p2 % 256, p3 % 256 >>)

\* a * b modulo 2^32
wrapping_mul(a, b) ==
    CHOOSE p \in {mul_bytes(x, y) : x \in {write_i32_LittleEndian(a)},
                                   y \in {write_i32_LittleEndian(b)}} : TRUE

\* a / b rounded toward zero, for b # 0 and (a, b) # (i32::MIN, -1)
RECURSIVE trunc_div(_, _)
trunc_div(a, b) ==
    IF b > 0 THEN (IF a >= 0 \/ a % b = 0 THEN a \div b ELSE (a \div b) + 1)
    ELSE IF b = I32_MIN THEN (IF a = I32_MIN THEN 1 ELSE 0)
    ELSE 0 - trunc_div(a, 0 - b)

\* a % b with the sign of a, for b # 0 and (a, b) # (i32::MIN, -1)
trunc_rem(a, b) ==
    IF b = I32_MIN THEN (IF a = I32_MIN THEN 0 ELSE a)
    ELSE LET d == IF b < 0 THEN 0 - b ELSE b
             m == a % d
         IN  IF a >= 0 \/ m = 0 THEN m ELSE m - d

\* the exact product of a and b is outside i32::MIN..i32::MAX
mul_overflows(a, b) ==
    IF a = 0 \/ b = 0 THEN FALSE
    ELSE IF a = I32_MIN THEN b # 1
    ELSE IF b = I32_MIN THEN a # 1
    ELSE LET x == IF a < 0 THEN 0 - a ELSE a
             y == IF b < 0 THEN 0 - b ELSE b
         IN  IF (a < 0) = (b < 0) THEN x > I32_MAX \div y
             ELSE ~(\/ x <= I32_MAX \div y
                    \/ (x = (I32_MAX \div y) + 1 /\ I32_MAX % y = y - 1))

Val(v) == [panic |-> FALSE, val |-> v]
Abort == [panic |-> TRUE, val |-> 0]

i32_add(lhs, rhs, checks) ==
    IF checks /\ add_overflows(lhs, rhs) THEN Abort ELSE Val(wrapping_add(lhs, rhs))

i32_sub(lhs, rhs, checks) ==
    IF checks /\ sub_overflows(lhs, rhs) THEN Abort ELSE Val(wrapping_sub(lhs, rhs))

i32_mul(lhs, rhs, checks) ==
    IF checks /\ mul_overflows(lhs, rhs) THEN Abort ELSE Val(wrapping_mul(lhs, rhs))

\* a division that yields 0 for a zero divisor
i32_div_zero_is_zero(lhs, rhs) ==
    IF lhs = I32_MIN /\ rhs = -1 THEN Abort
    ELSE IF rhs = 0 THEN Val(0) ELSE Val(trunc_div(lhs, rhs))

i32_div(lhs, rhs) ==
    IF rhs = 0 \/ (lhs = I32_MIN /\ rhs = -1) THEN Abort ELSE Val(trunc_div(lhs, rhs))

i32_rem(lhs, rhs) ==
    IF rhs = 0 \/ (lhs = I32_MIN /\ rhs = -1) THEN Abort ELSE Val(trunc_rem(lhs, rhs))

i32_neg(n, checks) ==
    IF n = I32_MIN THEN (IF checks THEN Abort ELSE Val(I32_MIN)) ELSE Val(0 - n)


(***************************************************************************)
(* Vm, libvm/src/vm.rs.  A Vm is [program, index, regs, stack]; func is    *)
(* the key of the Function whose run() created it.                         *)
(***************************************************************************)
Vm_new(program, regs, func) ==
    [program |-> program, index |-> 0, regs |-> regs, stack |-> << >>, func |-> func]

\* the outcome of one arm of Vm::execute: the Vm afterwards and the lines printed,
\* or a panic (an index out of range, an unwrap of None, an arithmetic abort)
Continue(vm) == [panic |-> FALSE, vm |-> vm, print |-> << >>]
Printed(vm, line) == [panic |-> FALSE, vm |-> vm, print |-> << line >>]
Panicked(vm) == [panic |-> TRUE, vm |-> vm, print |-> << >>]

\* how many more program bytes next() can deliver
Remaining(vm) == Len(vm.program) - vm.index

\* Vm::current (and the byte Vm::next returns)
current(vm) == vm.program[vm.index + 1]

\* Vm::next, the state change
advance(vm) == [vm EXCEPT !.index = @ + 1]

\* next_int without `out.reverse()`
next_int_unreversed(vm) ==
    << vm.program[vm.index + 1], vm.program[vm.index + 2],
       vm.program[vm.index + 3], vm.program[vm.index + 4] >>

\* Vm::next_int: four program bytes, reversed
next_int(vm) ==
    Reverse(<< vm.program[vm.index + 1], vm.program[vm.index + 2],
               vm.program[vm.index + 3], vm.program[vm.index + 4] >>)

\* Vm::push, Vm::push_32, Vm::push_i32 on the stack
push(stack, v) == Append(stack, v)
push_32(stack, v) == stack \o v
push_i32(stack, v) == stack \o write_i32_LittleEndian(v)

\* Vm::pop_32, the value: four pops, reversed (needs Len(stack) >= 4)
pop_32(stack) ==
    LET n == Len(stack) IN Reverse(<< stack[n], stack[n - 1], stack[n - 2], stack[n - 3] >>)

\* the stack after k pops
popped(stack, k) == SubSeq(stack, 1, Len(stack) - k)

\* Vm::pop_i32, the value
pop_i32(stack) == read_i32_LittleEndian(pop_32(stack))

\* Vm::get_int: the top four bytes, not removed
get_int(stack) ==
    Reverse([i \in 1..4 |-> stack[Len(stack) - (i - 1)]])

\* PUSH_I
exec_PUSH_I(vm) ==
    IF Remaining(vm) < 4 THEN Panicked(vm)
    ELSE Continue([vm EXCEPT !.index = @ + 4, !.stack = push_32(@, next_int(vm))])

\* binary_operator!(i op) for ADD_I, SUB_I, MUL_I, DIV_I, MOD_I
int_operator(op, lhs, rhs, checks) ==
    CASE op = ADD_I -> i32_add(lhs, rhs, checks)
      [] op = SUB_I -> i32_sub(lhs, rhs, checks)
      [] op = MUL_I -> i32_mul(lhs, rhs, checks)
      [] op = DIV_I -> i32_div(lhs, rhs)
      [] op = MOD_I -> i32_rem(lhs, rhs)

binary_operator_i(vm, op, checks) ==
    IF Len(vm.stack) < 8 THEN Panicked(vm)
    ELSE LET rhs == pop_i32(vm.stack)
             lhs == pop_i32(popped(vm.stack, 4))
             r == int_operator(op, lhs, rhs, checks)
         IN  IF r.panic THEN Panicked(vm)
             ELSE Continue([vm EXCEPT !.stack = push_i32(popped(@, 8), r.val)])

\* the comparisons with GE_I lowered as `>`
bool_operator_strict_ge(op, lhs, rhs) ==
    CASE op = NE -> lhs # rhs
      [] op = EQ -> lhs = rhs
      [] op = GT_I -> lhs > rhs
      [] op = LT_I -> lhs < rhs
      [] op = GE_I -> lhs > rhs
      [] op = LE_I -> lhs <= rhs

\* binary_operator!(ib op) for NE, EQ, GT_I, LT_I, GE_I, LE_I: one result byte
bool_operator(op, lhs, rhs) ==
    CASE op = NE -> lhs # rhs
      [] op = EQ -> lhs = rhs
      [] op = GT_I -> lhs > rhs
      [] op = LT_I -> lhs < rhs
      [] op = GE_I -> lhs >= rhs
      [] op = LE_I -> lhs <= rhs

binary_operator_ib(vm, op) ==
    IF Len(vm.stack) < 8 THEN Panicked(vm)
    ELSE LET rhs == pop_i32(vm.stack)
             lhs == pop_i32(popped(vm.stack, 4))
         IN  Continue([vm EXCEPT !.stack =
                 push(popped(@, 8), IF bool_operator(op, lhs, rhs) THEN 1 ELSE 0)])

\* NEG_I
exec_NEG_I(vm, checks) ==
    IF Len(vm.stack) < 4 THEN Panicked(vm)
    ELSE LET r == i32_neg(pop_i32(vm.stack), checks)
         IN  IF r.panic THEN Panicked(vm)
             ELSE Continue([vm EXCEPT !.stack = push_i32(popped(@, 4), r.val)])

\* NOT
exec_NOT(vm) ==
    IF Len(vm.stack) < 1 THEN Panicked(vm)
    ELSE LET n == vm.stack[Len(vm.stack)] # 0
         IN  Continue([vm EXCEPT !.stack = push(popped(@, 1), IF ~n THEN 1 ELSE 0)])

\* DUP_I
exec_DUP_I(vm) ==
    IF Len(vm.stack) < 4 THEN Panicked(vm)
    ELSE Continue([vm EXCEPT !.stack = push_32(@, get_int(vm.stack))])

\* GOTO
exec_GOTO(vm) ==
    IF Remaining(vm) < 1 THEN Panicked(vm)
    ELSE Continue([vm EXCEPT !.index = current(vm)])

\* ordering!(a) and ordering!(a, b): the bytes that make each IF_* jump
\* the branch bytes with IF_F taken on 0x01
ordering_if_f_on_true(op) ==
    CASE op = IF_T -> {1}
      [] op = IF_F -> {1}
      [] op = IF_NE -> {1, 2}
      [] op = IF_EQ -> {0}
      [] op = IF_GT -> {1}
      [] op = IF_LT -> {2}
      [] op = IF_LE -> {2, 0}
      [] op = IF_GE -> {1, 0}

ordering(op) ==
    CASE op = IF_T -> {1}
      [] op = IF_F -> {0}
      [] op = IF_NE -> {1, 2}
      [] op = IF_EQ -> {0}
      [] op = IF_GT -> {1}
      [] op = IF_LT -> {2}
      [] op = IF_LE -> {2, 0}
      [] op = IF_GE -> {1, 0}

exec_IF(vm, op) ==
    IF Remaining(vm) < 1 \/ Len(vm.stack) < 1 THEN Panicked(vm)
    ELSE LET location == current(vm)
             v == vm.stack[Len(vm.stack)]
         IN  Continue([vm EXCEPT !.index = IF v \in ordering(op) THEN location ELSE @ + 1,
                                 !.stack = popped(@, 1)])

\* STO_I
exec_STO_I(vm) ==
    IF Remaining(vm) < 1 \/ Len(vm.stack) < 4 THEN Panicked(vm)
    ELSE LET reg == current(vm)
             val == pop_32(vm.stack)
         IN  IF Len(vm.regs) <= reg + 3
             THEN Continue([vm EXCEPT !.index = @ + 1, !.stack = popped(@, 4),
                                      !.regs = @ \o val])
             ELSE Continue([vm EXCEPT !.index = @ + 1, !.stack = popped(@, 4),
                                      !.regs = [i \in 1..Len(@) |->
                                          IF i - 1 \in reg..(reg + 3) THEN val[i - reg] ELSE @[i]]])

\* LOAD_I
exec_LOAD_I(vm) ==
    IF Remaining(vm) < 1 THEN Panicked(vm)
    ELSE LET reg == current(vm)
         IN  IF Len(vm.regs) < reg + 4 THEN Panicked(vm)
             ELSE Continue([vm EXCEPT !.index = @ + 1,
                                      !.stack = @ \o SubSeq(vm.regs, reg + 1, reg + 4)])

\* CMP_I: a is popped first
exec_CMP_I(vm) ==
    IF Len(vm.stack) < 8 THEN Panicked(vm)
    ELSE LET a == pop_i32(vm.stack)
             b == pop_i32(popped(vm.stack, 4))
         IN  Continue([vm EXCEPT !.stack =
                 push(popped(@, 8), IF a = b THEN 0 ELSE IF a > b THEN 1 ELSE 2)])


\* LDC that pushes the constant as it lies in the pool, the length byte first
exec_LDC_unreversed(vm, constants) ==
    IF Remaining(vm) < 1 THEN Panicked(vm)
    ELSE LET index == current(vm)
         IN  IF Len(constants) < index + 1 THEN Panicked(vm)
             ELSE LET len == constants[index + 1]
                      constant == [i \in 1..(len + 1) |-> constants[index + (i - 1) + 1]]
                  IN  IF Len(constants) < index + len + 1 THEN Panicked(vm)
                      ELSE Continue([vm EXCEPT !.index = @ + 1,
                                               !.stack = @ \o constant])

\* LDC: the length byte and the string's bytes, reversed, so the length is on top
exec_LDC(vm, constants) ==
    IF Remaining(vm) < 1 THEN Panicked(vm)
    ELSE LET index == current(vm)
         IN  IF Len(constants) < index + 1 THEN Panicked(vm)
             ELSE LET len == constants[index + 1]
                      constant == [i \in 1..(len + 1) |-> constants[index + (i - 1) + 1]]
                  IN  IF Len(constants) < index + len + 1 THEN Panicked(vm)
                      ELSE Continue([vm EXCEPT !.index = @ + 1,
                                               !.stack = @ \o Reverse(constant)])

\* VIRTUAL: the host calls; a printed line is [kind, val]
exec_VIRTUAL(vm) ==
    IF Remaining(vm) < 1 THEN Panicked(vm)
    ELSE LET call == current(vm)
             v == advance(vm)
         IN  CASE call = 0 ->
                    IF Len(v.stack) < 4 THEN Panicked(vm)
                    ELSE Printed([v EXCEPT !.stack = popped(@, 4)],
                                 [kind |-> "int", val |-> << pop_i32(v.stack) >>])
               [] call = 1 ->
                    Printed(v, [kind |-> "debug", val |-> << v.stack, v.regs >>])
               [] call = 2 ->
                    IF Len(v.stack) < 1 THEN Panicked(vm)
                    ELSE LET len == v.stack[Len(v.stack)]
                             rest == popped(v.stack, 1)
                         IN  IF Len(rest) < len THEN Panicked(vm)
                             ELSE Printed([v EXCEPT !.stack = popped(rest, len)],
                                      [kind |-> "str",
                                       val |-> [i \in 1..len |-> rest[Len(rest) + 1 - i]]])
               [] call = 3 ->
                    \* the f32 is printed; it is kept here as its four big-endian bytes
                    IF Len(v.stack) < 4 THEN Panicked(vm)
                    ELSE Printed([v EXCEPT !.stack = popped(@, 4)],
                                 [kind |-> "f32", val |-> pop_32(v.stack)])
               [] OTHER -> Continue(v)

(***************************************************************************)
(* Module and Function, libvm/src/module.rs and libvm/src/function.rs.     *)
(* A Module is [constants, functions]; functions maps a constant index to  *)
(* a Function [program, params, return_type].                              *)
(***************************************************************************)
\* consts::disassemble: the operand bytes that follow an opcode
operand_width(op) ==
    IF op = PUSH_I THEN 4
    ELSE IF op \in {VIRTUAL, GOTO, STO_I, LOAD_I, LDC, CALL} \cup (IF_T..IF_GE) THEN 1
    ELSE 0

\* consts::disassemble: the offsets at which it reads an opcode, from offset o on
RECURSIVE instruction_starts(_, _)
instruction_starts(program, o) ==
    IF o >= Len(program) THEN {}
    ELSE {o} \cup instruction_starts(program, o + 1 + operand_width(program[o + 1]))

Function_new(program, params, return_type) ==
    [program |-> program, params |-> params, return_type |-> return_type]

Module_default == [constants |-> << >>, functions |-> << >>]

\* Module::new_const: the new pool and the index of the new constant
new_const(m, val) ==
    [module |-> [m EXCEPT !.constants = (@ \o << as_u8(Len(val)) >>) \o val],
     index |-> Len(m.constants)]

\* Module::push_fn (HashMap::insert)
push_fn(m, index, function) ==
    [m EXCEPT !.functions =
        [k \in (DOMAIN @) \cup {index} |-> IF k = index THEN function ELSE @[k]]]

\* Function::run, the Vm it creates
Function_run(m, function, params) == Vm_new(m.functions[function].program, params, function)

\* Module::call up to the start of the callee: the bytes it pops off the caller's
\* stack (four per parameter, the top one first) are reversed into the callee's regs
call_len(m, function) == 4 * Len(m.functions[function].params)

\* Module::call without `params.reverse()`
call_params_unreversed(m, function, stack) ==
    [i \in 1..call_len(m, function) |-> stack[Len(stack) + 1 - i]]

call_params(m, function, stack) ==
    Reverse([i \in 1..call_len(m, function) |-> stack[Len(stack) + 1 - i]])


\* Module::get_main, the keys it can return: the functions whose key holds a
\* length byte and then exactly the bytes of "main" (HashMap::iter().find() takes
\* the first it meets, in no fixed order)
str_main == << 109, 97, 105, 110 >>

\* the closure of get_main's find(): the string read at key i; a read past the end
\* of the pool is an unwrap of None
name_reads(constants, i) ==
    /\ i < Len(constants)
    /\ i + constants[i + 1] < Len(constants)

name_at(constants, i) == SubSeq(constants, i + 2, i + 1 + constants[i + 1])

(***************************************************************************)
(* The AST, libparser/src/ast.rs.  Spans are replaced by the text they     *)
(* cover (a sequence of bytes); a Block is the sequence of its statements. *)
(***************************************************************************)
Literal(kind, val) == [t |-> "Literal", kind |-> kind, val |-> val]
Ident(val) == [t |-> "Ident", val |-> val]
Binary(lhs, op, rhs) == [t |-> "Binary", lhs |-> lhs, op |-> op, rhs |-> rhs]
Unary(op, expr) == [t |-> "Unary", op |-> op, expr |-> expr]
FunctionCall(name, exprs) == [t |-> "FunctionCall", name |-> name, exprs |-> exprs]
DummyExpr == [t |-> "Dummy"]

Typed(name, type) == [t |-> "Typed", name |-> name, type |-> type]
Untyped(name) == [t |-> "Untyped", name |-> name]

Assign(name, expr) == [t |-> "Assign", name |-> name, expr |-> expr]
Mutate(name, expr) == [t |-> "Mutate", name |-> name, expr |-> expr]
FnDecl(name, args, return_type, block) ==
    [t |-> "FnDecl", name |-> name, args |-> args, return_type |-> return_type, block |-> block]
Return(expr) == [t |-> "Return", expr |-> expr]
If(expr, block, next) == [t |-> "If", expr |-> expr, block |-> block, next |-> next]
Else(block) == [t |-> "Else", block |-> block]
Loop(block) == [t |-> "Loop", block |-> block]
Break == [t |-> "Break"]
Expression(expr) == [t |-> "Expression", expr |-> expr]
DummyStmt == [t |-> "Dummy"]
None == [t |-> "None"]

(***************************************************************************)
(* The lexer, libparser/src/lexer.rs.  A source text is a sequence of      *)
(* character codes; the texts of this model are ASCII, so that a char is   *)
(* one byte and byte offsets are character offsets.  A token kind is the   *)
(* name of the TokenKind variant, "Literal(Int)" for Literal(Int).  A      *)
(* scanner loop that can make no progress (peek(0) yields NUL at the end   *)
(* of the input for ever) is the outcome hang: the call does not return.   *)
(***************************************************************************)
\* the printable ASCII characters, codes 32 to 126 in order, three of them by name
Printable ==
    << " ", "!", "quote", "#", "$", "%", "&", "'", "(", ")", "*", "+", ",", "-", ".", "/",
       "0", "1", "2", "3", "4", "5", "6", "7", "8", "9", ":", ";", "<", "=", ">", "?",
       "@", "A", "B", "C", "D", "E", "F", "G", "H", "I", "J", "K", "L", "M", "N", "O",
       "P", "Q", "R", "S", "T", "U", "V", "W", "X", "Y", "Z", "[", "backslash", "]", "^", "_",
       "backtick", "a", "b", "c", "d", "e", "f", "g", "h", "i", "j", "k", "l", "m", "n", "o",
       "p", "q", "r", "s", "t", "u", "v", "w", "x", "y", "z", "{", "|", "}", "~" >>

\* the code of each character: the newline and the printable ones
Ascii ==
    [c \in {"\n"} \cup {Printable[i] : i \in 1..Len(Printable)} |->
        IF c = "\n" THEN 10 ELSE 31 + (CHOOSE i \in 1..Len(Printable) : Printable[i] = c)]

\* the code of a character written as a string
ord(c) == Ascii[c]

\* a source text written as a sequence of one-character strings
Text(chars) == [i \in 1..Len(chars) |-> ord(chars[i])]

\* is_whitespace, on ASCII
is_whitespace(c) == c \in {9, 10, 11, 12, 13, 32}

ascii_digit(c) == c \in 48..57

is_ident_first(c) == c \in 65..90 \/ c \in 97..122 \/ c = 95

is_ident(c) == is_ident_first(c) \/ ascii_digit(c)

\* keyword(text)
keyword(text) ==
    CASE text = Text(<< "l", "e", "t" >>) -> "Let"
      [] text = Text(<< "f", "n" >>) -> "Fn"
      [] text = Text(<< "i", "f" >>) -> "If"
      [] text = Text(<< "e", "l", "s", "e" >>) -> "Else"
      [] text = Text(<< "b", "r", "e", "a", "k" >>) -> "Break"
      [] text = Text(<< "l", "o", "o", "p" >>) -> "Loop"
      [] text = Text(<< "r", "e", "t", "u", "r", "n" >>) -> "Return"
      [] text = Text(<< "i", "3", "2" >>) -> "I32"
      [] text = Text(<< "f", "3", "2" >>) -> "F32"
      [] OTHER -> "Identifier"

\* Cursor::peek after n chars were consumed: the k-th char ahead, NUL at the end
Cursor_peek(inp, n, k) == IF n + k < Len(inp) THEN inp[n + k + 1] ELSE 0

Scanned(n) == [hang |-> FALSE, n |-> n]
ScanHangs == [hang |-> TRUE, n |-> 0]

RECURSIVE scan_whitespace(_, _), scan_line_comment(_, _), scan_block_comment(_, _)
RECURSIVE scan_string(_, _), scan_number(_, _, _), scan_ident(_, _)

\* `while is_whitespace(self.peek(0)) { self.next(); }`
scan_whitespace(inp, n) ==
    IF is_whitespace(Cursor_peek(inp, n, 0)) THEN scan_whitespace(inp, n + 1) ELSE n

\* `loop { match self.peek(0) { '\n' => break, _ => { self.next(); } } }`: at the end
\* of the input next() consumes nothing and the loop goes on
scan_line_comment(inp, n) ==
    IF Cursor_peek(inp, n, 0) = 10 THEN Scanned(n)
    ELSE IF n >= Len(inp) THEN ScanHangs
    ELSE scan_line_comment(inp, n + 1)

\* the loop of a block comment, left at "*/", and the two next() after it
scan_block_comment(inp, n) ==
    IF Cursor_peek(inp, n, 0) = ord("*") /\ Cursor_peek(inp, n, 1) = ord("/") THEN Scanned(n + 2)
    ELSE IF n >= Len(inp) THEN ScanHangs
    ELSE scan_block_comment(inp, n + 1)

\* the loop that consumes up to the closing quote, and the next() of that quote
scan_string(inp, n) ==
    IF Cursor_peek(inp, n, 0) = ord("quote") THEN Scanned(n + 1)
    ELSE IF n >= Len(inp) THEN ScanHangs
    ELSE scan_string(inp, n + 1)

\* the loop of a number literal: a '.' is taken unless the char after it starts an
\* identifier, a digit is taken, anything else ends the token
scan_number(inp, n, has_dot) ==
    IF Cursor_peek(inp, n, 0) = ord(".") /\ n < Len(inp)
    THEN IF n + 1 < Len(inp) /\ is_ident_first(inp[n + 2])
         THEN [n |-> n, has_dot |-> has_dot]
         ELSE scan_number(inp, n + 1, TRUE)
    ELSE IF ascii_digit(Cursor_peek(inp, n, 0)) THEN scan_number(inp, n + 1, has_dot)
    ELSE [n |-> n, has_dot |-> has_dot]

\* `while is_ident(self.peek(0)) { .. self.next() .. }`
scan_ident(inp, n) ==
    IF is_ident(Cursor_peek(inp, n, 0)) THEN scan_ident(inp, n + 1) ELSE n

TokenLen(kind, len) == [hang |-> FALSE, kind |-> kind, len |-> len]
TokenHangs == [hang |-> TRUE, kind |-> "Unknown", len |-> 0]

\* the arms of next_token for a first char that is followed by an optional second one
two_char(inp, second, double, single) ==
    IF Cursor_peek(inp, 1, 0) = ord(second) THEN TokenLen(double, 2) ELSE TokenLen(single, 1)

\* the arms of next_token that make a token of the first char alone
one_char(first) ==
    CASE first = ord(";") -> "Semi"
      [] first = ord("(") -> "OpenParen"
      [] first = ord(")") -> "CloseParen"
      [] first = ord("{") -> "OpenBrace"
      [] first = ord("}") -> "CloseBrace"
      [] first = ord("[") -> "OpenBracket"
      [] first = ord("]") -> "CloseBracket"
      [] first = ord(",") -> "Comma"
      [] first = ord(".") -> "Dot"
      [] first = ord("?") -> "Question"
      [] first = ord(":") -> "Colon"
      [] first = ord("+") -> "Plus"
      [] first = ord("*") -> "Star"
      [] first = ord("^") -> "Caret"
      [] first = ord("%") -> "Percent"
      [] first = 0 -> "Eof"
      [] OTHER -> "Unknown"

\* Cursor::new(input).next_token(), input not empty: the kind and the length of
\* the first raw token
next_token(inp) ==
    LET first == inp[1]
    IN  CASE is_whitespace(first) -> TokenLen("Whitespace", scan_whitespace(inp, 1))
          [] first = ord("/") ->
                IF Cursor_peek(inp, 1, 0) = ord("/")
                THEN LET c == scan_line_comment(inp, 2)
                     IN  IF c.hang THEN TokenHangs ELSE TokenLen("Comment", c.n)
                ELSE IF Cursor_peek(inp, 1, 0) = ord("*")
                THEN LET c == scan_block_comment(inp, 2)
                     IN  IF c.hang THEN TokenHangs ELSE TokenLen("Comment", c.n)
                ELSE TokenLen("Slash", 1)
          [] first = ord("quote") ->
                LET c == scan_string(inp, 1)
                IN  IF c.hang THEN TokenHangs ELSE TokenLen("Literal(String)", c.n)
          [] ascii_digit(first) ->
                LET c == scan_number(inp, 1, FALSE)
                IN  TokenLen(IF c.has_dot THEN "Literal(Float)" ELSE "Literal(Int)", c.n)
          [] is_ident_first(first) ->
                LET n == scan_ident(inp, 1)
                IN  TokenLen(keyword(SubSeq(inp, 1, n)), n)
          [] first = ord("!") -> two_char(inp, "=", "NotEqual", "Not")
          [] first = ord("=") -> two_char(inp, "=", "EqEqual", "Equal")
          [] first = ord("&") -> two_char(inp, "&", "AndAnd", "And")
          [] first = ord("|") -> two_char(inp, "|", "OrOr", "Or")
          [] first = ord("<") -> two_char(inp, "=", "LtEqual", "Lt")
          [] first = ord(">") -> two_char(inp, "=", "GtEqual", "Gt")
          [] first = ord("-") -> two_char(inp, ">", "Arrow", "Minus")
          [] OTHER -> TokenLen(one_char(first), 1)

Span_new(start, end) == [pos |-> << start, end >>, is_dummy |-> FALSE]
Span_dummy == [pos |-> << 0, 0 >>, is_dummy |-> TRUE]

Token(kind, span) == [kind |-> kind, span |-> span]

\* eof()
eof == Token("Eof", Span_dummy)

Tokenizer_new(inp) == [input |-> inp, pos |-> 0]

\* the rest of a text after its first n chars, `&self.input[n..]`
rest(inp, n) == SubSeq(inp, n + 1, Len(inp))

\* Tokenizer::next: the outcome is hang, None (some = FALSE) or Some(token); cuts
\* are the raw tokens cut on the way, the skipped whitespace and comments included
RECURSIVE Tokenizer_next(_)
Tokenizer_next(tk) ==
    IF tk.input = << >>
    THEN [hang |-> FALSE, some |-> FALSE, token |-> eof, tokens |-> tk, cuts |-> << >>]
    ELSE LET cut(token_len) == [kind |-> token_len.kind, len |-> token_len.len]
             step(token_len, after) ==
                 IF token_len.hang
                 THEN [hang |-> TRUE, some |-> FALSE, token |-> eof, tokens |-> tk, cuts |-> << >>]
                 ELSE IF token_len.kind \in {"Whitespace", "Comment"}
                 THEN [Tokenizer_next(after) EXCEPT !.cuts = << cut(token_len) >> \o @]
                 ELSE [hang |-> FALSE, some |-> TRUE,
                       token |-> Token(token_len.kind,
                                       Span_new(after.pos - token_len.len, after.pos)),
                       tokens |-> after, cuts |-> << cut(token_len) >>]
             cut_off(token_len) ==
                 step(token_len, [input |-> rest(tk.input, token_len.len),
                                  pos |-> tk.pos + token_len.len])
         IN  cut_off(next_token(tk.input))

\* Iterator::nth on a Tokenizer: n items are dropped, the next one is returned
RECURSIVE Tokenizer_nth(_, _)
Tokenizer_nth(tk, n) ==
    LET drop(r) == IF r.hang \/ ~r.some \/ n = 0 THEN r ELSE Tokenizer_nth(r.tokens, n - 1)
    IN  drop(Tokenizer_next(tk))

Lexer_new(inp) == [tokens |-> Tokenizer_new(inp)]

\* what a call on the lexer does: it hangs, or returns val, leaves the lexer lexer,
\* has reported the errors err and has cut the raw tokens cuts
Outcome(hang, val, lx, err, raw) ==
    [hang |-> hang, val |-> val, lexer |-> lx, err |-> err, cuts |-> raw]

Some(token) == [t |-> "Some", token |-> token]

\* Lexer::next
Lexer_next(lx) ==
    LET unwrap(r) == Outcome(r.hang, r.token, [tokens |-> r.tokens], << >>, r.cuts)
    IN  unwrap(Tokenizer_next(lx.tokens))

\* a peek that keeps the tokenizer it advanced, in place of the clone
Lexer_peek_consuming(lx, n) ==
    LET unwrap(r) == Outcome(r.hang, r.token, [tokens |-> r.tokens], << >>, << >>)
    IN  unwrap(Tokenizer_nth(lx.tokens, n))

\* Lexer::peek: `self.tokens.clone().nth(n).unwrap_or_else(eof)`
Lexer_peek(lx, n) ==
    LET unwrap(r) == Outcome(r.hang, r.token, lx, << >>, << >>)
    IN  unwrap(Tokenizer_nth(lx.tokens, n))

\* Lexer::until
Lexer_until(lx, kind) ==
    LET match(peeked) ==
            IF peeked.hang THEN peeked
            ELSE IF peeked.val.kind \in kind THEN [Lexer_next(lx) EXCEPT !.val = Some(@)]
            ELSE [peeked EXCEPT !.val = None]
    IN  match(Lexer_peek(lx, 0))

\* ParseContext::error: one report on stderr
error(span, message) == << [span |-> span, message |-> message] >>

\* Lexer::expect
Lexer_expect(lx, kind, message) ==
    LET match(peeked) ==
            IF peeked.hang THEN peeked
            ELSE IF peeked.val.kind = kind THEN [Lexer_next(lx) EXCEPT !.val = Some(@)]
            ELSE [peeked EXCEPT !.val = None, !.err = error(peeked.val.span, message)]
    IN  match(Lexer_peek(lx, 0))


(***************************************************************************)
(* The parser, libparser/src/parser.  The state of a Parser is p =         *)
(* [input, lexer, err, hang]: the text of its context, its Lexer, the      *)
(* errors it has reported, and whether a call on the lexer or a loop of    *)
(* the parser never returns.  A parsing function yields [p, node], the     *)
(* state afterwards and the AST node built.  An AST node carries the text  *)
(* of its Span, which the generator would read from the same input with    *)
(* OpcodeGenerator::to_str.  A function of the source is the operator of   *)
(* its name, defined after one operator for each of its steps; a step      *)
(* takes what the steps before it have bound, and nothing follows a step   *)
(* that never returns.                                                     *)
(***************************************************************************)
Parser_new(inp) == [input |-> inp, lexer |-> Lexer_new(inp), err |-> << >>, hang |-> FALSE]

Parsed(p, node) == [p |-> p, node |-> node]

\* self.context.error(span, message)
report(p, span, message) == [p EXCEPT !.err = @ \o error(span, message)]

\* a call on self.lexer with the outcome o: the value returned and the parser afterwards
Lexed(p, o) ==
    [val |-> o.val,
     p |-> [input |-> p.input, lexer |-> o.lexer, err |-> p.err \o o.err,
            hang |-> p.hang \/ o.hang]]

next_p(p) == Lexed(p, Lexer_next(p.lexer))

peek_p(p, n) == Lexed(p, Lexer_peek(p.lexer, n))

until_p(p, kind) == Lexed(p, Lexer_until(p.lexer, kind))

expect_p(p, kind, message) == Lexed(p, Lexer_expect(p.lexer, kind, message))

\* the text a Span covers
slice(inp, span) == SubSeq(inp, span.pos[1] + 1, span.pos[2])

\* impl From<TokenKind> for Op
Op_from(token_kind) ==
    CASE token_kind = "Star" -> "Star"
      [] token_kind = "Slash" -> "Slash"
      [] token_kind = "Plus" -> "Plus"
      [] token_kind = "Minus" -> "Minus"
      [] token_kind = "Percent" -> "Mod"
      [] token_kind = "EqEqual" -> "Eq"
      [] token_kind = "NotEqual" -> "NotEq"
      [] token_kind = "LtEqual" -> "LtEq"
      [] token_kind = "GtEqual" -> "GtEq"
      [] token_kind = "Lt" -> "Lt"
      [] token_kind = "Gt" -> "Gt"
      [] token_kind = "Not" -> "Not"

\* impl From<lexer::LiteralKind> for LiteralKind
LiteralKind_from(token_kind) ==
    CASE token_kind = "Literal(Float)" -> "Float"
      [] token_kind = "Literal(Int)" -> "Int"
      [] token_kind = "Literal(String)" -> "String"

LiteralKinds == {"Literal(Int)", "Literal(Float)", "Literal(String)"}

RECURSIVE equality(_), equality_loop(_), comparison_loop(_), addition_loop(_)
RECURSIVE multiplication(_), multiplication_loop(_), primary(_)

\* `expr = Expression::Binary(Box::new(expr), Op::from(op.kind), Box::new(rhs))`
Folded(expr, op, rhs) ==
    Parsed(rhs.p, Binary(expr.node, Op_from(op.val.token.kind), rhs.node))

\* Parser::primary, the OpenParen arm: parse_expression, then expect(CloseParen)
\* whose outcome is not looked at
primary_group(expr) ==
    IF expr.p.hang THEN expr
    ELSE Parsed(expect_p(expr.p, "CloseParen", "Expected Close Parentheses").p, expr.node)

primary_open(paren) ==
    IF paren.p.hang THEN Parsed(paren.p, DummyExpr) ELSE primary_group(equality(paren.p))

RECURSIVE call_args(_, _, _)

\* the loop of parse_function_call after an expression and the token next after it:
\* `)` ends the list, `,` goes on, and any other token is reported and the loop goes
\* on as well.  Once the input is used up every further token is Eof, so that the
\* loop never ends.
call_separator(name, args, expression, next) ==
    CASE next.val.kind = "CloseParen" ->
            Parsed(next.p, FunctionCall(name, Append(args, expression.node)))
      [] next.val.kind = "Comma" -> call_args(next.p, name, Append(args, expression.node))
      [] OTHER ->
            IF next.p.hang \/ next.p.lexer.tokens.input = << >>
            THEN Parsed([next.p EXCEPT !.hang = TRUE], DummyExpr)
            ELSE call_args(report(next.p, next.val.span, "Expected close paren or comma"),
                           name, Append(args, expression.node))

call_argument(name, args, expression) ==
    IF expression.p.hang THEN expression
    ELSE call_separator(name, args, expression, next_p(expression.p))

\* `loop { let expression = self.parse_expression(); args.push(expression); .. }`
call_args(p, name, args) == call_argument(name, args, equality(p))

\* parse_function_call after `(`, peeked the outcome of peek(0)
call_opened(name, peeked) ==
    IF peeked.p.hang THEN Parsed(peeked.p, DummyExpr)
    ELSE IF peeked.val.kind = "CloseParen"
    THEN Parsed(next_p(peeked.p).p, FunctionCall(name, << >>))
    ELSE call_args(peeked.p, name, << >>)

\* parse_function_call after its two next()
call_paren(name, paren) ==
    IF paren.val.kind = "OpenParen" THEN call_opened(name, peek_p(paren.p, 0))
    ELSE Parsed(report(paren.p, paren.val.span, "Missing parentheses in function call"),
                DummyExpr)

call_named(p, next) == call_paren(slice(p.input, next.val.span), next_p(next.p))

\* Parser::parse_function_call
parse_function_call(p) == call_named(p, next_p(p))

\* the Identifier arm of primary, peeked the outcome of peek(1)
primary_identifier(p, next, peeked) ==
    IF peeked.val.kind = "OpenParen" /\ ~peeked.p.hang THEN parse_function_call(peeked.p)
    ELSE Parsed(next_p(peeked.p).p, Ident(slice(p.input, next.val.span)))

\* the match of primary on next, the outcome of peek(0)
primary_at(p, next) ==
    CASE next.val.kind \in LiteralKinds ->
            Parsed(next_p(next.p).p,
                   Literal(LiteralKind_from(next.val.kind), slice(p.input, next.val.span)))
      [] next.val.kind = "Identifier" -> primary_identifier(p, next, peek_p(next.p, 1))
      [] next.val.kind = "OpenParen" -> primary_open(next_p(next.p))
      [] OTHER -> Parsed(report(next_p(next.p).p, next.val.span, "Expected a value"), DummyExpr)

\* Parser::primary
primary(p) == IF p.hang THEN Parsed(p, DummyExpr) ELSE primary_at(p, peek_p(p, 0))

unary_rhs(op, rhs) == Parsed(rhs.p, Unary(Op_from(op.val.token.kind), rhs.node))

unary_found(op) ==
    IF op.val = None \/ op.p.hang THEN primary(op.p) ELSE unary_rhs(op, multiplication(op.p))

\* a unary that looks for `-` and `!` before primary
unary_minus_not(p) == unary_found(until_p(p, {"Minus", "Not"}))

\* Parser::unary
unary(p) == unary_found(until_p(p, {"Star", "Slash"}))

\* Parser::multiplication: the right operand is again a multiplication
multiplication_rhs(expr, op, rhs) ==
    IF rhs.p.hang THEN rhs ELSE multiplication_loop(Folded(expr, op, rhs))

\* a multiplication that takes its right operand with unary and folds it in the loop
multiplication_found_unary(expr, op) ==
    IF op.val = None \/ op.p.hang THEN Parsed(op.p, expr.node)
    ELSE multiplication_rhs(expr, op, unary(op.p))

multiplication_found(expr, op) ==
    IF op.val = None \/ op.p.hang THEN Parsed(op.p, expr.node)
    ELSE multiplication_rhs(expr, op, multiplication(op.p))

multiplication_loop(expr) ==
    IF expr.p.hang THEN expr ELSE multiplication_found(expr, until_p(expr.p, {"Star", "Slash"}))

multiplication(p) == multiplication_loop(unary(p))

\* Parser::addition
addition_rhs(expr, op, rhs) == IF rhs.p.hang THEN rhs ELSE addition_loop(Folded(expr, op, rhs))

\* an addition that takes its right operand with unary, past the multiplication level
addition_found_unary(expr, op) ==
    IF op.val = None \/ op.p.hang THEN Parsed(op.p, expr.node)
    ELSE addition_rhs(expr, op, unary(op.p))

addition_found(expr, op) ==
    IF op.val = None \/ op.p.hang THEN Parsed(op.p, expr.node)
    ELSE addition_rhs(expr, op, multiplication(op.p))

addition_loop(expr) ==
    IF expr.p.hang THEN expr ELSE addition_found(expr, until_p(expr.p, {"Plus", "Minus"}))

addition(p) == addition_loop(multiplication(p))

\* Parser::comparison
comparison_rhs(expr, op, rhs) ==
    IF rhs.p.hang THEN rhs ELSE comparison_loop(Folded(expr, op, rhs))

comparison_found(expr, op) ==
    IF op.val = None \/ op.p.hang THEN Parsed(op.p, expr.node)
    ELSE comparison_rhs(expr, op, addition(op.p))

comparison_loop(expr) ==
    IF expr.p.hang THEN expr
    ELSE comparison_found(expr, until_p(expr.p, {"Lt", "Gt", "LtEqual", "GtEqual"}))

comparison(p) == comparison_loop(addition(p))

\* Parser::equality (and Parser::parse_expression, which is equality)
equality_rhs(expr, op, rhs) == IF rhs.p.hang THEN rhs ELSE equality_loop(Folded(expr, op, rhs))

equality_found(expr, op) ==
    IF op.val = None \/ op.p.hang THEN Parsed(op.p, expr.node)
    ELSE equality_rhs(expr, op, comparison(op.p))

equality_loop(expr) ==
    IF expr.p.hang THEN expr ELSE equality_found(expr, until_p(expr.p, {"EqEqual", "NotEqual"}))

equality(p) == equality_loop(comparison(p))

RECURSIVE parse_block(_), block_loop(_, _), parse_if_statement(_), fn_args(_, _, _)

type_at(next) ==
    CASE next.val.kind = "I32" -> Parsed(next_p(next.p).p, "Int")
      [] next.val.kind = "F32" -> Parsed(next_p(next.p).p, "Float")
      [] OTHER -> Parsed(next_p(report(next.p, next.val.span, "Expected type")).p, "Void")

\* Parser::parse_type
parse_type(p) == type_at(peek_p(p, 0))

\* the Let arm of parse_statement
let_assign(p, ident, equal, expr) ==
    Parsed(expr.p, IF ident.val # None /\ equal.val # None
                   THEN Assign(slice(p.input, ident.val.token.span), expr.node)
                   ELSE DummyStmt)

let_equal(p, ident, equal) ==
    IF equal.p.hang THEN Parsed(equal.p, DummyStmt)
    ELSE let_assign(p, ident, equal, equality(equal.p))

let_ident(p, ident) == let_equal(p, ident, expect_p(ident.p, "Equal", "Expected equal sign"))

\* the Return arm
return_expr(expr) == Parsed(expr.p, Return(expr.node))

return_keyword(kw) ==
    IF kw.p.hang THEN Parsed(kw.p, DummyStmt) ELSE return_expr(equality(kw.p))

\* the Loop arm
loop_block(block) == Parsed(block.p, Loop(block.node))

loop_open(open_brace) ==
    IF open_brace.val = None \/ open_brace.p.hang THEN Parsed(open_brace.p, DummyStmt)
    ELSE loop_block(parse_block(open_brace.p))

\* the arm `Identifier if self.lexer.peek(1).kind == Equal`
mutate_expr(p, var, expr) == Parsed(expr.p, Mutate(slice(p.input, var.val.span), expr.node))

mutate_equal(p, var, equal) ==
    IF equal.p.hang THEN Parsed(equal.p, DummyStmt)
    ELSE mutate_expr(p, var, equality(equal.p))

mutate_var(p, var) == mutate_equal(p, var, next_p(var.p))

\* the arm `Identifier | Literal(_)`
expression_stmt(expr) == Parsed(expr.p, Expression(expr.node))

\* the two arms of an Identifier, peeked the outcome of peek(1)
statement_identifier(p, peeked) ==
    IF peeked.val.kind = "Equal" /\ ~peeked.p.hang THEN mutate_var(p, next_p(peeked.p))
    ELSE expression_stmt(equality(peeked.p))

\* the loop over the arguments of a function declaration: ok is FALSE when the
\* function returns Some(Dummy) from inside the loop
ArgsParsed(p, ok, args) == [p |-> p, ok |-> ok, node |-> args]

fn_arg_more(inp, args, ident, arg_type, peeked) ==
    IF peeked.val.kind = "Comma" /\ ~peeked.p.hang
    THEN fn_args(inp, next_p(peeked.p).p,
                 Append(args, Typed(slice(inp, ident.val.span), arg_type.node)))
    ELSE ArgsParsed(peeked.p, TRUE, Append(args, Typed(slice(inp, ident.val.span), arg_type.node)))

fn_arg_typed(inp, args, ident, arg_type) ==
    fn_arg_more(inp, args, ident, arg_type, peek_p(arg_type.p, 0))

fn_arg_colon(inp, args, ident, colon) ==
    IF colon.val = None THEN ArgsParsed(colon.p, FALSE, args)
    ELSE fn_arg_typed(inp, args, ident, parse_type(colon.p))

fn_arg_ident(inp, args, ident) ==
    fn_arg_colon(inp, args, ident, expect_p(ident.p, "Colon", "Expected colon and type"))

fn_arg_at(inp, args, peeked) ==
    IF peeked.val.kind = "Identifier" /\ ~peeked.p.hang
    THEN fn_arg_ident(inp, args, next_p(peeked.p))
    ELSE ArgsParsed(peeked.p, TRUE, args)

fn_args(inp, p, args) == fn_arg_at(inp, args, peek_p(p, 0))

\* parse_function_decl up to the `{` of its body: ok is FALSE once the function has
\* returned Some(Dummy)
Header(p, ok, name, args, return_type) ==
    [p |-> p, ok |-> ok, name |-> name, args |-> args, return_type |-> return_type]

fn_expected(h, token) == [h EXCEPT !.p = token.p, !.ok = token.val # None]

fn_ident(inp, ident) ==
    Header(ident.p, ident.val # None,
           IF ident.val = None THEN << >> ELSE slice(inp, ident.val.token.span), << >>, "Void")

fn_name(p) == fn_ident(p.input, expect_p(next_p(p).p, "Identifier", "Expected Identifier"))

fn_open_paren(h) ==
    IF ~h.ok THEN h ELSE fn_expected(h, expect_p(h.p, "OpenParen", "Expected open paren"))

fn_listed(h, args) == [h EXCEPT !.p = args.p, !.ok = args.ok, !.args = args.node]

fn_arguments(h) == IF ~h.ok THEN h ELSE fn_listed(h, fn_args(h.p.input, h.p, << >>))

fn_close_paren(h) ==
    IF ~h.ok THEN h ELSE fn_expected(h, expect_p(h.p, "CloseParen", "Expected close paren"))

fn_typed(h, ret_type) == [h EXCEPT !.p = ret_type.p, !.return_type = ret_type.node]

fn_arrow(h, arrow) ==
    IF arrow.val.kind = "Arrow" /\ ~arrow.p.hang THEN fn_typed(h, parse_type(next_p(arrow.p).p))
    ELSE [h EXCEPT !.p = arrow.p]

fn_return_type(h) == IF ~h.ok THEN h ELSE fn_arrow(h, peek_p(h.p, 0))

fn_open_brace(h) ==
    IF ~h.ok THEN h ELSE fn_expected(h, expect_p(h.p, "OpenBrace", "Expected open brace"))

fn_header(p) ==
    fn_open_brace(fn_return_type(fn_close_paren(fn_arguments(fn_open_paren(fn_name(p))))))

fn_block(h, block) == Parsed(block.p, FnDecl(h.name, h.args, h.return_type, block.node))

fn_declared(h) ==
    IF ~h.ok \/ h.p.hang THEN Parsed(h.p, DummyStmt) ELSE fn_block(h, parse_block(h.p))

\* Parser::parse_function_decl
parse_function_decl(p) == fn_declared(fn_header(p))

\* parse_if_statement: its condition and `{`, its block, and what follows the block
if_with_next(c, block, next) == Parsed(next.p, If(c.expr, block.node, next.node))

if_else_block(block) == Parsed(block.p, Else(block.node))

if_else_open(c, block, open_brace) ==
    IF open_brace.val = None \/ open_brace.p.hang THEN Parsed(open_brace.p, DummyStmt)
    ELSE if_with_next(c, block, if_else_block(parse_block(open_brace.p)))

if_after_else(c, block, peeked) ==
    IF peeked.val.kind = "If" /\ ~peeked.p.hang
    THEN if_with_next(c, block, parse_if_statement(peeked.p))
    ELSE if_else_open(c, block, expect_p(peeked.p, "OpenBrace", "Expected open brace"))

if_after_block(c, block, peeked) ==
    IF peeked.val.kind = "Else" /\ ~peeked.p.hang
    THEN if_after_else(c, block, peek_p(next_p(peeked.p).p, 0))
    ELSE if_with_next(c, block, Parsed(peeked.p, None))

if_block(c, block) ==
    IF block.p.hang THEN Parsed(block.p, DummyStmt)
    ELSE if_after_block(c, block, peek_p(block.p, 0))

if_then(c) ==
    IF ~c.ok \/ c.p.hang THEN Parsed(c.p, DummyStmt) ELSE if_block(c, parse_block(c.p))

if_open(expr, open_brace) ==
    [p |-> open_brace.p, ok |-> open_brace.val # None, expr |-> expr.node]

if_tested(expr) ==
    IF expr.p.hang THEN [p |-> expr.p, ok |-> FALSE, expr |-> expr.node]
    ELSE if_open(expr, expect_p(expr.p, "OpenBrace", "Expected open brace"))

if_keyword(kw) == IF kw.p.hang THEN Parsed(kw.p, DummyExpr) ELSE equality(kw.p)

parse_if_statement(p) == if_then(if_tested(if_keyword(next_p(p))))

\* the match of parse_statement on next, the outcome of peek(0)
statement_at(p, next) ==
    CASE next.val.kind = "Let" ->
            let_ident(p, expect_p(next_p(next.p).p, "Identifier", "Expected identifier"))
      [] next.val.kind = "Return" -> return_keyword(next_p(next.p))
      [] next.val.kind = "Fn" -> parse_function_decl(next.p)
      [] next.val.kind = "If" -> parse_if_statement(next.p)
      [] next.val.kind = "Loop" ->
            loop_open(expect_p(next_p(next.p).p, "OpenBrace", "Expected open brace"))
      [] next.val.kind = "Break" -> Parsed(next_p(next.p).p, Break)
      [] next.val.kind = "Identifier" -> statement_identifier(p, peek_p(next.p, 1))
      [] next.val.kind \in LiteralKinds -> expression_stmt(equality(next.p))
      [] OTHER -> Parsed(next.p, None)

\* Parser::parse_statement; the node None is the None of Option<Statement>
parse_statement(p) == IF p.hang THEN Parsed(p, None) ELSE statement_at(p, peek_p(p, 0))

block_got(body, stmt) ==
    IF stmt.node = None \/ stmt.p.hang THEN Parsed(stmt.p, body)
    ELSE block_loop(stmt.p, Append(body, stmt.node))

\* `while let Some(stmt) = self.parse_statement() { body.push(stmt); }`
block_loop(p, body) == block_got(body, parse_statement(p))

\* the end of parse_block, next the outcome of peek(0)
block_closed(body, next) ==
    IF next.val.kind \in {"CloseBrace", "Eof"} THEN Parsed(next_p(next.p).p, body.node)
    ELSE Parsed(report(next.p, next.val.span,
                       << "Expected closing brace of EOF, found", next.val.kind >>),
                body.node)

block_close(body) == IF body.p.hang THEN body ELSE block_closed(body, peek_p(body.p, 0))

\* Parser::parse_block
parse_block(p) == block_close(block_loop(p, << >>))

\* Parser::new(input, context).parse()
Parser_parse(inp) == parse_block(Parser_new(inp))


(***************************************************************************)
(* OpcodeGenerator, libcodegen/src/opcode.rs.  The generator state is      *)
(* [out, var_map, var_index, break_me, module, functions, panic]; checks   *)
(* is the build's overflow checking (var_index is a u8).  The fields       *)
(* fn_key, loops_open, n_loops and info are bookkeeping that records where  *)
(* each if, loop, break and parameter was laid out; no emitted byte        *)
(* depends on them.                                                        *)
(***************************************************************************)
EmptyMap == [k \in {} |-> 0]

MapPut(map, k, v) == [x \in (DOMAIN map) \cup {k} |-> IF x = k THEN v ELSE map[x]]

NoInfo == [ifs |-> << >>, loops |-> << >>, breaks |-> << >>, params |-> << >>]

OpcodeGenerator_new(checks) ==
    [out |-> << >>, var_map |-> EmptyMap, var_index |-> 0, break_me |-> << >>,
     module |-> Module_default, functions |-> EmptyMap, panic |-> FALSE,
     checks |-> checks, fn_key |-> 0, loops_open |-> << >>, n_loops |-> 0, info |-> NoInfo]

ast_type_to_vm_type(t) ==
    CASE t = "Int" -> "I32"
      [] t = "Float" -> "F32"
      [] t = "Void" -> "Void"
      [] t = "Str" -> "String"

\* self.out.push(..)
emit(g, bytes) == [g EXCEPT !.out = @ \o bytes]

gen_panic(g) == [g EXCEPT !.panic = TRUE]

\* the patch of an `if` with `self.out.len() - 1`
patch_last_byte(out, i, v) == [out EXCEPT ![i + 1] = v - 1]

\* `*self.out.get_mut(i).unwrap() = v`, i a 0-based offset
patch(out, i, v) == [out EXCEPT ![i + 1] = v]

\* self.var_index += 4 on a u8
bump_var_index(g) ==
    IF g.var_index + 4 > 255
    THEN (IF g.checks THEN gen_panic(g) ELSE [g EXCEPT !.var_index = as_u8(@ + 4)])
    ELSE [g EXCEPT !.var_index = @ + 4]

\* str::parse::<i32> of a run of ASCII digits: None when the value passes i32::MAX
RECURSIVE parse_i32(_, _, _)
parse_i32(text, i, acc) ==
    IF i > Len(text) THEN [ok |-> TRUE, val |-> acc]
    ELSE LET d == text[i] - 48
         IN  IF acc > (I32_MAX - d) \div 10 THEN [ok |-> FALSE, val |-> 0]
             ELSE parse_i32(text, i + 1, acc * 10 + d)

\* the table of gen_expr's Binary arm
binary_opcode(op, type) ==
    CASE op = "Plus" /\ type = "F32" -> ADD_F
      [] op = "Minus" /\ type = "F32" -> SUB_F
      [] op = "Star" /\ type = "F32" -> MUL_F
      [] op = "Slash" /\ type = "F32" -> DIV_F
      [] op = "Mod" /\ type = "F32" -> MOD_F
      [] op = "Lt" /\ type = "F32" -> LT_F
      [] op = "Gt" /\ type = "F32" -> GT_F
      [] op = "LtEq" /\ type = "F32" -> LE_F
      [] op = "GtEq" /\ type = "F32" -> GE_F
      [] op = "Lt" /\ type # "F32" -> LT_I
      [] op = "Gt" /\ type # "F32" -> GT_I
      [] op = "LtEq" /\ type # "F32" -> LE_I
      [] op = "GtEq" /\ type # "F32" -> GE_I
      [] op = "Plus" /\ type # "F32" -> ADD_I
      [] op = "Minus" /\ type # "F32" -> SUB_I
      [] op = "Star" /\ type # "F32" -> MUL_I
      [] op = "Slash" /\ type # "F32" -> DIV_I
      [] op = "Mod" /\ type # "F32" -> MOD_I
      [] op = "Eq" -> EQ
      [] op = "NotEq" -> NE
      [] OTHER -> -1

str_print_int == << 112, 114, 105, 110, 116, 95, 105, 110, 116 >>
str_debug == << 100, 101, 98, 117, 103 >>
str_print_float == << 112, 114, 105, 110, 116, 95, 102, 108, 111, 97, 116 >>
str_print_str == << 112, 114, 105, 110, 116, 95, 115, 116, 114 >>

Typed_result(g, type) == [g |-> g, type |-> type]

RECURSIVE gen_expr(_, _), gen_exprs(_, _, _), gen_block(_, _, _), gen_stmts(_, _, _, _)

\* OpcodeGenerator::gen_expr: the generator afterwards and the type of the value
gen_expr(g, expr) ==
    IF g.panic THEN Typed_result(g, "Void")
    ELSE CASE expr.t = "Binary" ->
        LET lhs == gen_expr(g, expr.lhs)
            rhs == gen_expr(lhs.g, expr.rhs)
            code == binary_opcode(expr.op, lhs.type)
        IN  IF rhs.g.panic THEN rhs
            ELSE IF lhs.type # rhs.type \/ code = -1 THEN Typed_result(gen_panic(rhs.g), lhs.type)
            ELSE Typed_result(emit(rhs.g, << code >>), lhs.type)
      [] expr.t = "FunctionCall" ->
        IF expr.name \in {str_print_int, str_print_float, str_print_str}
        THEN IF Len(expr.exprs) = 0 THEN Typed_result(gen_panic(g), "Void")
             ELSE LET a == gen_expr(g, expr.exprs[1])
                      sub == IF expr.name = str_print_int THEN 0
                             ELSE IF expr.name = str_print_float THEN 3 ELSE 2
                  IN  IF a.g.panic THEN a
                      ELSE Typed_result(emit(a.g, << VIRTUAL, sub >>), "Void")
        ELSE IF expr.name = str_debug
        THEN Typed_result(emit(g, << VIRTUAL, 1 >>), "Void")
        ELSE LET a == gen_exprs(g, expr.exprs, 1)
             IN  IF a.panic THEN Typed_result(a, "Void")
                 ELSE IF expr.name \in DOMAIN a.functions
                 THEN LET f == a.functions[expr.name]
                      IN  Typed_result(emit(a, << CALL, as_u8(f.index) >>),
                                       ast_type_to_vm_type(f.stmt.return_type))
                 ELSE Typed_result(gen_panic(a), "Void")
      [] expr.t = "Ident" ->
        LET e == emit(g, << LOAD_I >>)
        IN  IF expr.val \in DOMAIN g.var_map
            THEN Typed_result(emit(e, << g.var_map[expr.val].index >>), g.var_map[expr.val].type)
            ELSE Typed_result(gen_panic(e), "Void")
      [] expr.t = "Literal" /\ expr.kind = "Int" ->
        LET num == parse_i32(expr.val, 1, 0)
            x == num.val
        IN  IF ~num.ok THEN Typed_result(gen_panic(emit(g, << PUSH_I >>)), "I32")
            ELSE Typed_result(emit(g, << PUSH_I, (x \div 16777216) % 256, (x \div 65536) % 256,
                                         (x \div 256) % 256, x % 256 >>), "I32")
      [] expr.t = "Literal" /\ expr.kind = "String" ->
        LET c == new_const(g.module, SubSeq(expr.val, 2, Len(expr.val) - 1))
        IN  Typed_result(emit([g EXCEPT !.module = c.module], << LDC, as_u8(c.index) >>), "String")
      [] expr.t = "Unary" ->
        LET e == gen_expr(g, expr.expr)
        IN  IF e.g.panic THEN e
            ELSE IF expr.op = "Minus" THEN Typed_result(emit(e.g, << NEG_I >>), e.type)
            ELSE IF expr.op = "Not" THEN Typed_result(emit(e.g, << NOT >>), e.type)
            ELSE Typed_result(gen_panic(e.g), e.type)
      [] OTHER -> Typed_result(gen_panic(g), "Void")

\* `for expr in exprs.iter() { self.gen_expr(expr); }`
gen_exprs(g, exprs, i) ==
    IF i > Len(exprs) \/ g.panic THEN g
    ELSE gen_exprs(gen_expr(g, exprs[i]).g, exprs, i + 1)


\* the innermost loop being generated, 0 outside every loop
InnermostLoop(g) == IF g.loops_open = << >> THEN 0 ELSE g.loops_open[Len(g.loops_open)]

\* `for i in self.break_me.iter() { *self.out.get_mut(*i).unwrap() = end as u8; }`
patch_breaks(out, break_me, end) ==
    [k \in 1..Len(out) |->
        IF \E j \in 1..Len(break_me) : break_me[j] + 1 = k THEN as_u8(end) ELSE out[k]]

\* an If arm that lowers the else arm too, after the then block
gen_if_and_else(g, stmt, return_type) ==
    LET e == gen_expr(g, stmt.expr).g
        set_me == Len(e.out) + 1
        b == gen_block(emit(e, << IF_F, 0 >>), stmt.block, return_type)
        patched == [b EXCEPT !.out = patch(@, set_me, as_u8(Len(b.out))),
                             !.info.ifs = Append(@, [func |-> g.fn_key, at |-> set_me - 1,
                                                     body |-> set_me + 1, after |-> Len(b.out)])]
    IN  IF e.panic THEN e
        ELSE IF b.panic THEN b
        ELSE IF stmt.next.t = "Else" THEN gen_block(patched, stmt.next.block, return_type)
        ELSE IF stmt.next.t = "If" THEN gen_block(patched, << stmt.next >>, return_type)
        ELSE patched

\* the arm Statement::If(expr, block, _next) of the match in gen_block
gen_if(g, stmt, return_type) ==
    LET e == gen_expr(g, stmt.expr).g
        set_me == Len(e.out) + 1
        b == gen_block(emit(e, << IF_F, 0 >>), stmt.block, return_type)
    IN  IF e.panic THEN e
        ELSE IF b.panic THEN b
        ELSE [b EXCEPT !.out = patch(@, set_me, as_u8(Len(b.out))),
                       !.info.ifs = Append(@, [func |-> g.fn_key, at |-> set_me - 1,
                                               body |-> set_me + 1, after |-> Len(b.out)])]

\* one arm of the match in gen_block
gen_stmt(g, stmt, return_type) ==
    CASE stmt.t = "Expression" -> gen_expr(g, stmt.expr).g
      [] stmt.t = "Assign" ->
        LET e == gen_expr(g, stmt.expr)
            s == emit(e.g, << STO_I >>)
        IN  IF e.g.panic THEN e.g
            ELSE IF stmt.name \in DOMAIN s.var_map
            THEN emit(s, << s.var_map[stmt.name].index >>)
            ELSE bump_var_index(emit(
                     [s EXCEPT !.var_map = MapPut(@, stmt.name, [index |-> s.var_index, type |-> e.type])],
                     << s.var_index >>))
      [] stmt.t = "Mutate" ->
        LET e == gen_expr(g, stmt.expr)
            s == emit(e.g, << STO_I >>)
        IN  IF e.g.panic THEN e.g
            ELSE IF stmt.name \in DOMAIN s.var_map
            THEN emit(s, << s.var_map[stmt.name].index >>)
            ELSE gen_panic(s)
      [] stmt.t = "If" -> gen_if(g, stmt, return_type)
      [] stmt.t = "Loop" ->
        LET id == g.n_loops + 1
            start == Len(g.out)
            b == gen_block([g EXCEPT !.n_loops = id, !.loops_open = Append(@, id)],
                           stmt.block, return_type)
            e == emit(b, << GOTO, as_u8(start) >>)
            end == Len(e.out)
        IN  IF b.panic THEN b
            ELSE [e EXCEPT !.out = patch_breaks(@, e.break_me, end),
                           !.break_me = << >>,
                           !.loops_open = SubSeq(@, 1, Len(@) - 1),
                           !.info.loops = Append(@, [func |-> g.fn_key, id |-> id, start |-> start,
                                                     goto |-> end - 2, end |-> end])]
      [] stmt.t = "Return" ->
        LET e == gen_expr(g, stmt.expr)
            r == emit(e.g, << RET_I >>)
        IN  IF e.g.panic THEN e.g
            ELSE IF e.type # return_type THEN gen_panic(r)
            ELSE r
      [] stmt.t = "Break" ->
        LET e == emit(g, << GOTO, 0 >>)
        IN  [e EXCEPT !.break_me = Append(@, Len(e.out) - 1),
                      !.info.breaks = Append(@, [func |-> g.fn_key, at |-> Len(e.out) - 2,
                                                 loop |-> InnermostLoop(g)])]
      [] OTHER -> gen_panic(g)

\* `for stmt in block.body.iter()`
gen_stmts(g, body, i, return_type) ==
    IF i > Len(body) \/ g.panic THEN g
    ELSE gen_stmts(gen_stmt(g, body[i], return_type), body, i + 1, return_type)

\* OpcodeGenerator::gen_block
gen_block(g, block, return_type) == gen_stmts(g, block, 1, return_type)

\* a reset that clears the output buffer only
reset_out_only(g) == [g EXCEPT !.out = << >>]

\* OpcodeGenerator::reset
reset(g) == [g EXCEPT !.out = << >>, !.break_me = << >>, !.var_map = EmptyMap, !.var_index = 0]

\* the closure gen_module maps over the parameters of a FnDecl
RECURSIVE gen_args(_, _, _)
gen_args(g, args, i) ==
    IF i > Len(args) \/ g.panic THEN g
    ELSE IF args[i].t = "Typed"
    THEN gen_args(bump_var_index(
             [g EXCEPT !.var_map = MapPut(@, args[i].name,
                  [index |-> g.var_index, type |-> ast_type_to_vm_type(args[i].type)]),
                       !.info.params = Append(@, [func |-> g.fn_key, rank |-> i - 1,
                                                  slot |-> g.var_index])]),
             args, i + 1)
    ELSE gen_panic(g)

\* the body of gen_module's loop, for one statement of the root block
gen_fn(g, stmt) ==
    IF stmt.t # "FnDecl" THEN gen_panic(g)
    ELSE IF stmt.name \in DOMAIN g.functions THEN gen_panic(g)
    ELSE LET c == new_const(g.module, stmt.name)
             declared == [g EXCEPT !.module = c.module,
                                   !.functions = MapPut(@, stmt.name, [index |-> c.index, stmt |-> stmt]),
                                   !.fn_key = c.index]
             a == gen_args(declared, stmt.args, 1)
             b == gen_block(a, stmt.block, ast_type_to_vm_type(stmt.return_type))
             func == Function_new(b.out,
                         [i \in 1..Len(stmt.args) |-> ast_type_to_vm_type(stmt.args[i].type)],
                         ast_type_to_vm_type(stmt.return_type))
         IN  IF b.panic THEN b
             ELSE [reset(b) EXCEPT !.module = push_fn(@, c.index, func)]

\* OpcodeGenerator::gen_module
RECURSIVE gen_module(_, _, _)
gen_module(g, block, i) ==
    IF i > Len(block) \/ g.panic THEN g
    ELSE gen_module(gen_fn(g, block[i]), block, i + 1)


(***************************************************************************)
(* The run of a module: Module::run_main, Function::run, Vm::run and the   *)
(* arms of Vm::execute as actions on the executing Vm.                     *)
(***************************************************************************)
Top == vms[Len(vms)]

\* Vm::run's loop condition holds and execute() fetches opcode op
Fetches(op) ==
    /\ status = "running"
    /\ Top.index < Len(Top.program)
    /\ current(Top) = op

\* the state after an arm of execute that does not return
Apply(o) ==
    /\ IF o.panic
       THEN /\ status' = "panicked"
            /\ UNCHANGED << vms, stdout >>
       ELSE /\ vms' = [vms EXCEPT ![Len(vms)] = o.vm]
            /\ stdout' = stdout \o o.print
            /\ UNCHANGED status
    /\ UNCHANGED << lexer, returned, stderr, cuts, input, overflow_checks, module, result, last_ret, gen_info, calls >>

\* the CALL arm with `self.stack = ret`
stack_replaced(stack, ret) == ret

\* `self.stack.extend(ret.iter())` of the CALL arm
stack_extend(stack, ret) == stack \o ret

\* Function::run returns ret: to run_main when this is the outermost Vm, else into
\* Module::call and the CALL arm of the calling Vm, which extends its stack with ret
Returns(ret) ==
    /\ last_ret' = [func |-> Top.func, bytes |-> ret]
    /\ IF Len(vms) = 1
       THEN /\ status' = "returned"
            /\ result' = ret
            /\ vms' = << >>
       ELSE /\ vms' = [i \in 1..(Len(vms) - 1) |->
                          IF i = Len(vms) - 1 THEN [vms[i] EXCEPT !.stack = stack_extend(@, ret)]
                          ELSE vms[i]]
            /\ UNCHANGED << status, result >>
    /\ UNCHANGED << lexer, returned, stderr, cuts, input, overflow_checks, module, stdout, gen_info, calls >>

ExecPUSH_I == Fetches(PUSH_I) /\ Apply(exec_PUSH_I(advance(Top)))

ExecArithI ==
    \E op \in {ADD_I, SUB_I, MUL_I, DIV_I, MOD_I} :
        Fetches(op) /\ Apply(binary_operator_i(advance(Top), op, overflow_checks))

ExecNEG_I == Fetches(NEG_I) /\ Apply(exec_NEG_I(advance(Top), overflow_checks))

ExecNOT == Fetches(NOT) /\ Apply(exec_NOT(advance(Top)))

ExecCompareI ==
    \E op \in {NE, EQ, GT_I, LT_I, GE_I, LE_I} :
        Fetches(op) /\ Apply(binary_operator_ib(advance(Top), op))

ExecDUP_I == Fetches(DUP_I) /\ Apply(exec_DUP_I(advance(Top)))

ExecGOTO == Fetches(GOTO) /\ Apply(exec_GOTO(advance(Top)))

ExecSTO_I == Fetches(STO_I) /\ Apply(exec_STO_I(advance(Top)))

ExecLOAD_I == Fetches(LOAD_I) /\ Apply(exec_LOAD_I(advance(Top)))

ExecVIRTUAL == Fetches(VIRTUAL) /\ Apply(exec_VIRTUAL(advance(Top)))

ExecLDC == Fetches(LDC) /\ Apply(exec_LDC(advance(Top), module.constants))

ExecCMP_I == Fetches(CMP_I) /\ Apply(exec_CMP_I(advance(Top)))

ExecIF ==
    \E op \in {IF_T, IF_F, IF_NE, IF_EQ, IF_GT, IF_LT, IF_LE, IF_GE} :
        Fetches(op) /\ Apply(exec_IF(advance(Top), op))

\* CALL: Module::call pops the arguments and Function::run starts a new Vm
ExecCALL ==
    /\ Fetches(CALL)
    /\ LET vm == advance(Top)
       IN  IF Remaining(vm) < 1 THEN Apply(Panicked(vm))
           ELSE LET index == current(vm)
                IN  IF index \notin DOMAIN module.functions
                       \/ Len(vm.stack) < call_len(module, index)
                    THEN Apply(Panicked(vm))
                    ELSE /\ vms' = Append(
                                [vms EXCEPT ![Len(vms)] =
                                    [vm EXCEPT !.index = @ + 1,
                                               !.stack = popped(@, call_len(module, index))]],
                                Function_run(module, index, call_params(module, index, vm.stack)))
                         /\ UNCHANGED << lexer, returned, stderr, cuts, input, overflow_checks, module, stdout, status,
                                         result, last_ret, gen_info, calls >>

\* RET_I: execute returns Some(the top four bytes) and run returns them
ExecRET_I ==
    /\ Fetches(RET_I)
    /\ IF Len(Top.stack) < 4 THEN Apply(Panicked(advance(Top)))
       ELSE Returns(pop_32(Top.stack))

\* the opcodes that have an arm in the match of Vm::execute
Dispatched ==
    {PUSH_I, ADD_I, SUB_I, MUL_I, DIV_I, MOD_I, ADD_F, SUB_F, MUL_F, DIV_F, MOD_F, NEG_I, NOT,
     NE, EQ, GT_I, LT_I, GE_I, LE_I, GT_F, LT_F, GE_F, LE_F, DUP_I, GOTO, STO_I, LOAD_I,
     CALL, VIRTUAL, LDC, RET_I, CMP_I,
     IF_T, IF_F, IF_NE, IF_EQ, IF_GT, IF_LT, IF_LE, IF_GE}

\* `_ => panic!("Unknown opcode: {}", self.current())`
ExecUnknown ==
    /\ status = "running"
    /\ Top.index < Len(Top.program)
    /\ current(Top) \notin Dispatched
    /\ Apply(Panicked(advance(Top)))

\* Vm::run leaves its loop at the end of the program and returns vec![]
RunOffEnd ==
    /\ status = "running"
    /\ Top.index >= Len(Top.program)
    /\ Returns(<< >>)

Execute ==
    \/ ExecPUSH_I \/ ExecArithI \/ ExecNEG_I \/ ExecNOT \/ ExecCompareI \/ ExecDUP_I
    \/ ExecGOTO \/ ExecSTO_I \/ ExecLOAD_I \/ ExecVIRTUAL
    \/ ExecLDC \/ ExecCMP_I \/ ExecIF \/ ExecCALL \/ ExecRET_I \/ ExecUnknown

Next == Execute \/ RunOffEnd


(***************************************************************************)
(* The cases the toolchain is run on.  A case is [kind, name, a, b, op]:   *)
(*   "push_ret": the program PUSH_I a; RET_I                               *)
(*   "arith":    the program PUSH_I a; PUSH_I b; op                        *)
(*   "bytes":    the hand-written program Program(name)                    *)
(*   "ldc":      the program PUSH_I 7; LDC i; VIRTUAL 2; RET_I             *)
(*   "pop_empty": the program op 0, run on the empty stack                 *)
(*   "source":   the module generated from the AST Source(name)            *)
(* A hand-written program is run as the function "main" of a module that   *)
(* holds nothing else.                                                     *)
(***************************************************************************)
\* the four operand bytes of PUSH_I for n, most significant first
be_bytes(n) == Reverse(write_i32_LittleEndian(n))

IntSamples ==
    {0, 1, -1, 2, -2, 5, 255, 256, 65536, 16777216, 305419896, -19088744, I32_MAX, I32_MIN}

ArithSamples == {0, 1, -1, 2, 7, -7, 46341, 305419896, I32_MAX, I32_MIN}

ArithOps == {ADD_I, SUB_I, MUL_I, DIV_I, MOD_I}

str_a == << 97 >>
str_b == << 98 >>
str_f == << 102 >>
str_i == << 105 >>
str_n == << 110 >>
str_x == << 120 >>
str_y == << 121 >>
str_add == << 97, 100, 100 >>
str_g == << 103 >>
str_253 == [k \in 1..253 |-> 97 + (k % 26)]

\* the ASCII digits of a literal's text
digits(n) == IF n < 10 THEN << 48 + n >> ELSE << 48 + (n \div 10), 48 + (n % 10) >>

\* an integer literal whose text is the decimal numeral of n, 0 <= n <= 99
IntLit(n) == Literal("Int", digits(n))

Call(name, exprs) == Expression(FunctionCall(name, exprs))
print_int(e) == Call(str_print_int, << e >>)
Main(block) == FnDecl(str_main, << >>, "Void", block)

\* the number of variables of the source many_variables: one more than the 64 slots
\* that a u8 slot counter can tell apart
ManyVariables == 65

\* the k-th of the two-letter names aa, ab, ..
VariableName(k) == << 97 + (k \div 26), 97 + (k % 26) >>

Source(name) ==
    CASE name = "empty" -> << Main(<< >>) >>
      [] name = "print20" ->
            \* fn main() { print_int(5 + 3 * (3 + 2)) }
            << Main(<< print_int(Binary(IntLit(5), "Plus",
                          Binary(IntLit(3), "Star", Binary(IntLit(3), "Plus", IntLit(2))))) >>) >>
      [] name = "count" ->
            \* fn main() { let i = 0 loop { print_int(i) if i >= 10 { break } i = i + 1 } }
            << Main(<< Assign(str_i, IntLit(0)),
                       Loop(<< print_int(Ident(str_i)),
                               If(Binary(Ident(str_i), "GtEq", IntLit(10)), << Break >>, None),
                               Mutate(str_i, Binary(Ident(str_i), "Plus", IntLit(1))) >>) >>) >>
      [] name = "add" ->
            \* fn add(a: i32, b: i32) -> i32 { return a + b } fn main() { print_int(add(34, 29)) }
            << FnDecl(str_add, << Typed(str_a, "Int"), Typed(str_b, "Int") >>, "Int",
                      << Return(Binary(Ident(str_a), "Plus", Ident(str_b))) >>),
               Main(<< print_int(FunctionCall(str_add, << IntLit(34), IntLit(29) >>)) >>) >>
      [] name = "sub3" ->
            \* fn f(a: i32, b: i32, n: i32) -> i32 { return (a - b) - n }
            \* fn main() { print_int(f(34, 29, 2)) }
            << FnDecl(str_f, << Typed(str_a, "Int"), Typed(str_b, "Int"), Typed(str_n, "Int") >>, "Int",
                      << Return(Binary(Binary(Ident(str_a), "Minus", Ident(str_b)),
                                       "Minus", Ident(str_n))) >>),
               Main(<< print_int(FunctionCall(str_f, << IntLit(34), IntLit(29), IntLit(2) >>)) >>) >>
      [] name = "hello" ->
            \* fn main() { print_str("Hi") debug() }
            << Main(<< Call(str_print_str, << Literal("String", << 34, 72, 105, 34 >>) >>),
                       Call(str_debug, << >>) >>) >>
      [] name = "if_taken" ->
            \* fn main() { let i = 1 if i == 1 { print_int(5) } print_int(7) }
            << Main(<< Assign(str_i, IntLit(1)),
                       If(Binary(Ident(str_i), "Eq", IntLit(1)), << print_int(IntLit(5)) >>, None),
                       print_int(IntLit(7)) >>) >>
      [] name = "if_skipped" ->
            \* fn main() { let i = 0 if i == 1 { print_int(5) } print_int(7) }
            << Main(<< Assign(str_i, IntLit(0)),
                       If(Binary(Ident(str_i), "Eq", IntLit(1)), << print_int(IntLit(5)) >>, None),
                       print_int(IntLit(7)) >>) >>
      [] name = "if_long" ->
            \* fn main() { let i = 0 if i == 1 { print_int(5) ... (36 times) } print_int(7) }:
            \* the code of the if's block ends at offset 269
            << Main(<< Assign(str_i, IntLit(0)),
                       If(Binary(Ident(str_i), "Eq", IntLit(1)),
                          [k \in 1..36 |-> print_int(IntLit(5))], None),
                       print_int(IntLit(7)) >>) >>
      [] name = "if_last" ->
            \* fn main() { let i = 0 if i != 0 { print_int(5) } }
            << Main(<< Assign(str_i, IntLit(0)),
                       If(Binary(Ident(str_i), "NotEq", IntLit(0)), << print_int(IntLit(5)) >>, None) >>) >>
      [] name = "if_else" ->
            \* fn main() { if 1 < 2 { print_int(1) } else { print_int(2) } print_int(3) }
            << Main(<< If(Binary(IntLit(1), "Lt", IntLit(2)), << print_int(IntLit(1)) >>,
                          Else(<< print_int(IntLit(2)) >>)),
                       print_int(IntLit(3)) >>) >>
      [] name = "loop_break" ->
            \* fn main() { loop { break } }
            << Main(<< Loop(<< Break >>) >>) >>
      [] name = "loop_break_then" ->
            \* fn main() { loop { print_int(1) break } print_int(2) }
            << Main(<< Loop(<< print_int(IntLit(1)), Break >>), print_int(IntLit(2)) >>) >>
      [] name = "inner_break" ->
            \* fn main() { loop { loop { print_int(1) break } print_int(2) break } print_int(3) }
            << Main(<< Loop(<< Loop(<< print_int(IntLit(1)), Break >>),
                               print_int(IntLit(2)), Break >>),
                       print_int(IntLit(3)) >>) >>
      [] name = "outer_break_first" ->
            \* fn main() { let i = 1 loop { if i > 0 { break } loop { break } } print_int(i) }
            << Main(<< Assign(str_i, IntLit(1)),
                       Loop(<< If(Binary(Ident(str_i), "Gt", IntLit(0)), << Break >>, None),
                               Loop(<< Break >>) >>),
                       print_int(Ident(str_i)) >>) >>
      [] name = "recursive" ->
            \* fn f(n: i32) -> i32 { if n <= 0 { return 0 } let x = n return x + f(n - 1) }
            \* fn main() { let y = 7 print_int(f(2)) print_int(y) }
            << FnDecl(str_f, << Typed(str_n, "Int") >>, "Int",
                      << If(Binary(Ident(str_n), "LtEq", IntLit(0)), << Return(IntLit(0)) >>, None),
                         Assign(str_x, Ident(str_n)),
                         Return(Binary(Ident(str_x), "Plus",
                                       FunctionCall(str_f, << Binary(Ident(str_n), "Minus", IntLit(1)) >>))) >>),
               Main(<< Assign(str_y, IntLit(7)),
                       print_int(FunctionCall(str_f, << IntLit(2) >>)),
                       print_int(Ident(str_y)) >>) >>
      [] name = "no_return" ->
            \* fn f() -> i32 { } fn main() { f() }
            << FnDecl(str_f, << >>, "Int", << >>),
               Main(<< Call(str_f, << >>) >>) >>
      [] name = "return_on_one_path" ->
            \* fn f(n: i32) -> i32 { if n > 0 { return n } } fn main() { f(1) f(0) }
            << FnDecl(str_f, << Typed(str_n, "Int") >>, "Int",
                      << If(Binary(Ident(str_n), "Gt", IntLit(0)), << Return(Ident(str_n)) >>, None) >>),
               Main(<< Call(str_f, << IntLit(1) >>), Call(str_f, << IntLit(0) >>) >>) >>
      [] name = "void_return" ->
            \* fn f() { 5 return debug() } fn main() { f() }
            << FnDecl(str_f, << >>, "Void",
                      << Expression(IntLit(5)), Return(FunctionCall(str_debug, << >>)) >>),
               Main(<< Call(str_f, << >>) >>) >>
      [] name = "unary" ->
            \* the AST of: fn main() { print_int(-5) if !(1 == 2) { print_int(1) } }
            << Main(<< print_int(Unary("Minus", IntLit(5))),
                       If(Unary("Not", Binary(IntLit(1), "Eq", IntLit(2))), << print_int(IntLit(1)) >>, None) >>) >>
      [] name = "undefined_variable" ->
            \* fn main() { x = 1 }
            << Main(<< Mutate(str_x, IntLit(1)) >>) >>
      [] name = "no_main" ->
            \* fn f() { }
            << FnDecl(str_f, << >>, "Void", << >>) >>
      [] name = "else_if_chain" ->
            \* fn main() { let i = 2 if i == 1 { print_int(1) } else if i == 2 { print_int(2) }
            \*             else { print_int(3) } print_int(4) }
            << Main(<< Assign(str_i, IntLit(2)),
                       If(Binary(Ident(str_i), "Eq", IntLit(1)), << print_int(IntLit(1)) >>,
                          If(Binary(Ident(str_i), "Eq", IntLit(2)), << print_int(IntLit(2)) >>,
                             Else(<< print_int(IntLit(3)) >>))),
                       print_int(IntLit(4)) >>) >>
      [] name = "else_declares" ->
            \* fn main() { let i = 0 if i == 0 { let a = 5 } else { let b = 6 } let x = 7 print_int(x) }
            << Main(<< Assign(str_i, IntLit(0)),
                       If(Binary(Ident(str_i), "Eq", IntLit(0)), << Assign(str_a, IntLit(5)) >>,
                          Else(<< Assign(str_b, IntLit(6)) >>)),
                       Assign(str_x, IntLit(7)),
                       print_int(Ident(str_x)) >>) >>
      [] name = "else_only_variable" ->
            \* fn main() { if 1 < 2 { print_int(1) } else { let b = 6 } print_int(b) }
            << Main(<< If(Binary(IntLit(1), "Lt", IntLit(2)), << print_int(IntLit(1)) >>,
                          Else(<< Assign(str_b, IntLit(6)) >>)),
                       print_int(Ident(str_b)) >>) >>
      [] name = "two_functions" ->
            \* fn f(a: i32) { let b = 5 break } fn main() { let x = 7 loop { break } print_int(x) }
            << FnDecl(str_f, << Typed(str_a, "Int") >>, "Void", << Assign(str_b, IntLit(5)), Break >>),
               Main(<< Assign(str_x, IntLit(7)), Loop(<< Break >>), print_int(Ident(str_x)) >>) >>
      [] name = "earlier_variable" ->
            \* fn f(a: i32) { let b = 5 } fn main() { print_int(b) }
            << FnDecl(str_f, << Typed(str_a, "Int") >>, "Void", << Assign(str_b, IntLit(5)) >>),
               Main(<< print_int(Ident(str_b)) >>) >>
      [] name = "earlier_parameter" ->
            \* fn f(a: i32) { let b = 5 } fn main() { print_int(a) }
            << FnDecl(str_f, << Typed(str_a, "Int") >>, "Void", << Assign(str_b, IntLit(5)) >>),
               Main(<< print_int(Ident(str_a)) >>) >>
      [] name = "redeclared" ->
            \* fn f(a: i32, b: i32) { let x = 1 let y = 2 let x = 3 let a = 4 let n = 5 }
            \* fn main() { f(8, 9) }
            << FnDecl(str_f, << Typed(str_a, "Int"), Typed(str_b, "Int") >>, "Void",
                      << Assign(str_x, IntLit(1)), Assign(str_y, IntLit(2)), Assign(str_x, IntLit(3)),
                         Assign(str_a, IntLit(4)), Assign(str_n, IntLit(5)) >>),
               Main(<< Call(str_f, << IntLit(8), IntLit(9) >>) >>) >>
      [] name = "many_variables" ->
            \* fn f(aa: i32, ab: i32, ..) { let cm = 64 print_int(aa) } fn main() { f(0, 1, ..) }:
            \* ManyVariables names in f, all but the last of them parameters
            << FnDecl(str_f, [k \in 1..(ManyVariables - 1) |-> Typed(VariableName(k - 1), "Int")],
                      "Void",
                      << Assign(VariableName(ManyVariables - 1), IntLit(ManyVariables - 1)),
                         print_int(Ident(VariableName(0))) >>),
               Main(<< Call(str_f, [k \in 1..(ManyVariables - 1) |-> IntLit(k - 1)]) >>) >>
      [] name = "loop_past_255" ->
            \* fn f() { print_int(5) ... (37 times) loop { break } } fn main() { }:
            \* the loop of f starts at offset 259 and ends at 263
            << FnDecl(str_f, << >>, "Void",
                      [k \in 1..37 |-> print_int(IntLit(5))] \o << Loop(<< Break >>) >>),
               Main(<< >>) >>
      [] name = "pool_past_255" ->
            \* fn f() { print_str("bcd..") } fn g() { print_str("Hi") } fn main() { g() }:
            \* the string of f has 253 bytes, so that the name of g is at index 256 of the pool
            << FnDecl(str_f, << >>, "Void",
                      << Call(str_print_str, << Literal("String", (<< 34 >> \o str_253) \o << 34 >>) >>) >>),
               FnDecl(str_g, << >>, "Void",
                      << Call(str_print_str, << Literal("String", << 34, 72, 105, 34 >>) >>) >>),
               Main(<< Call(str_g, << >>) >>) >>
      [] name = "store_comparison" ->
            \* fn main() { let a = 1 < 2 }
            << Main(<< Assign(str_a, Binary(IntLit(1), "Lt", IntLit(2))) >>) >>
      [] name = "fewer_arguments" ->
            \* fn f(a: i32) { } fn main() { f() }
            << FnDecl(str_f, << Typed(str_a, "Int") >>, "Void", << >>),
               Main(<< Call(str_f, << >>) >>) >>
      [] name = "void_value" ->
            \* fn main() { let a = debug() }
            << Main(<< Assign(str_a, FunctionCall(str_debug, << >>)) >>) >>
      [] name = "let_in_if" ->
            \* fn main() { let i = 0 if i == 1 { let a = 5 } let b = 7 print_int(b) }
            << Main(<< Assign(str_i, IntLit(0)),
                       If(Binary(Ident(str_i), "Eq", IntLit(1)), << Assign(str_a, IntLit(5)) >>, None),
                       Assign(str_b, IntLit(7)),
                       print_int(Ident(str_b)) >>) >>
      [] name = "let_in_taken_if" ->
            \* fn main() { let i = 1 if i == 1 { let a = 5 } let b = 7 print_int(b) }
            << Main(<< Assign(str_i, IntLit(1)),
                       If(Binary(Ident(str_i), "Eq", IntLit(1)), << Assign(str_a, IntLit(5)) >>, None),
                       Assign(str_b, IntLit(7)),
                       print_int(Ident(str_b)) >>) >>
      [] name = "let_after_break" ->
            \* fn main() { loop { break let a = 5 } let b = 7 print_int(b) }
            << Main(<< Loop(<< Break, Assign(str_a, IntLit(5)) >>),
                       Assign(str_b, IntLit(7)),
                       print_int(Ident(str_b)) >>) >>

SourceNames ==
    {"empty", "print20", "count", "add", "sub3", "hello", "if_taken", "if_skipped", "if_long", "if_last",
     "if_else",
     "loop_break", "loop_break_then", "inner_break", "outer_break_first", "recursive",
     "no_return", "return_on_one_path", "void_return", "unary", "undefined_variable", "no_main",
     "let_in_if", "let_in_taken_if", "let_after_break",
     "else_if_chain", "else_declares", "else_only_variable",
     "two_functions", "earlier_variable", "earlier_parameter", "redeclared", "many_variables",
     "loop_past_255", "pool_past_255", "store_comparison", "fewer_arguments", "void_value"}

Program(name) ==
    CASE name = "doctest" ->
            \* the doctest of Vm::run
            << PUSH_I, 0, 0, 0, 5, PUSH_I, 0, 0, 0, 6, ADD_I, RET_I >>
      [] name = "nop" -> << NOP, PUSH_I, 0, 0, 0, 5, RET_I >>
      [] name = "dup_cmp" ->
            \* 5 5 CMP_I IF_EQ 12; (skipped: RET_I, NOP); 6 RET_I
            << PUSH_I, 0, 0, 0, 5, DUP_I, CMP_I, IF_EQ, 12, RET_I, NOP, NOP,
               PUSH_I, 0, 0, 0, 6, RET_I >>
      [] name = "truncated" -> << PUSH_I, 0, 0 >>
      [] name = "unknown" ->
            \* 0x02 is no opcode of consts.rs
            << PUSH_I, 0, 0, 0, 5, 2, RET_I >>
      [] name = "goto_out" -> << GOTO, 9 >>
      [] name = "goto_end" -> << PUSH_I, 0, 0, 0, 5, GOTO, 7 >>
      [] name = "if_out" ->
            \* the top byte of the pushed 1 is 0, so IF_F is taken
            << PUSH_I, 0, 0, 0, 1, IF_F, 200 >>
      [] name = "if_not_taken" -> << PUSH_I, 0, 0, 0, 1, IF_T, 200, PUSH_I, 0, 0, 0, 6, RET_I >>

ProgramNames ==
    {"doctest", "nop", "dup_cmp", "truncated", "unknown", "goto_out", "goto_end", "if_out", "if_not_taken"}

\* the opcodes whose arm pops from the stack (VIRTUAL with the call 0x00 that follows)
PoppingOps ==
    {ADD_I, SUB_I, MUL_I, DIV_I, MOD_I, NEG_I, NOT, NE, EQ, GT_I, LT_I, GE_I, LE_I, CMP_I,
     STO_I, RET_I, VIRTUAL, IF_T, IF_F, IF_NE, IF_EQ, IF_GT, IF_LT, IF_LE, IF_GE}

str_Hi == << 72, 105 >>
str_255 == [k \in 1..255 |-> 97 + (k % 26)]

\* the strings of a pool whose first entry names the function main
ldc_texts == << str_main, << >>, str_Hi, str_add, str_255 >>

\* the module after new_const for the first n strings of ldc_texts
RECURSIVE ldc_pool(_)
ldc_pool(n) == IF n = 0 THEN Module_default ELSE new_const(ldc_pool(n - 1), ldc_texts[n]).module

\* the index new_const returned for the n-th string of ldc_texts
ldc_index(n) == new_const(ldc_pool(n - 1), ldc_texts[n]).index

\* the operands the two ways of branching are run on
BranchSamples == {I32_MIN, -1, 0, 7}

\* the branches on the outcome of CMP_I, and the comparisons that push a bool
OrderingBranches == {IF_GT, IF_LT, IF_GE, IF_LE, IF_EQ, IF_NE}
Comparisons == {GT_I, LT_I, GE_I, LE_I, EQ, NE}

\* push x, push y, compare and branch to 19; 13: return 0 (not taken); 19: return 1 (taken)
BranchProgram(x, y, compare_and_branch) ==
    (((<< PUSH_I >> \o be_bytes(x)) \o (<< PUSH_I >> \o be_bytes(y))) \o compare_and_branch)
    \o << 19, PUSH_I, 0, 0, 0, 0, RET_I, PUSH_I, 0, 0, 0, 1, RET_I >>

Case(kind, name, a, b, op) == [kind |-> kind, name |-> name, a |-> a, b |-> b, op |-> op]

Inputs ==
    {Case("push_ret", "", n, 0, 0) : n \in IntSamples}
    \cup {Case("arith", "", c[1], c[2], c[3]) : c \in ArithSamples \X ArithSamples \X ArithOps}
    \cup {Case("bytes", n, 0, 0, 0) : n \in ProgramNames}
    \cup {Case("source", n, 0, 0, 0) : n \in SourceNames}
    \cup {Case("ldc", "", n, 0, 0) : n \in 1..Len(ldc_texts)}
    \cup {Case("pop_empty", "", 0, 0, op) : op \in PoppingOps}
    \cup {Case("cmp_branch", "", c[1], c[2], c[3]) : c \in BranchSamples \X BranchSamples \X OrderingBranches}
    \cup {Case("bool_branch", "", c[1], c[2], c[3]) : c \in BranchSamples \X BranchSamples \X Comparisons}

\* the program of a case that is hand-written bytecode
CaseProgram(inp) ==
    CASE inp.kind = "push_ret" -> (<< PUSH_I >> \o be_bytes(inp.a)) \o << RET_I >>
      [] inp.kind = "arith" ->
            ((<< PUSH_I >> \o be_bytes(inp.a)) \o (<< PUSH_I >> \o be_bytes(inp.b))) \o << inp.op >>
      [] inp.kind = "bytes" -> Program(inp.name)
      [] inp.kind = "pop_empty" -> << inp.op, 0 >>
      [] inp.kind = "cmp_branch" -> BranchProgram(inp.a, inp.b, << CMP_I, inp.op >>)
      [] inp.kind = "bool_branch" -> BranchProgram(inp.a, inp.b, << inp.op, IF_T >>)
      [] inp.kind = "ldc" ->
            \* push 7, load the constant at the index, print_str, return the 7
            << PUSH_I, 0, 0, 0, 7, LDC, as_u8(ldc_index(inp.a)), VIRTUAL, 2, RET_I >>

\* the generator after the case's module is built
Build(inp, checks) ==
    IF inp.kind = "source"
    THEN gen_module(OpcodeGenerator_new(checks), Source(inp.name), 1)
    ELSE LET c == new_const(Module_default, str_main)
             m == IF inp.kind = "ldc" THEN ldc_pool(Len(ldc_texts)) ELSE c.module
         IN  [OpcodeGenerator_new(checks) EXCEPT
                 !.module = push_fn(m, c.index, Function_new(CaseProgram(inp), << >>, "Void"))]

\* the keys at which get_main's closure would answer for any name that starts with "main"
main_keys_by_prefix(m) ==
    {i \in DOMAIN m.functions :
        /\ name_reads(m.constants, i)
        /\ Len(name_at(m.constants, i)) >= 4
        /\ SubSeq(name_at(m.constants, i), 1, 4) = str_main}

\* Module::get_main: the keys at which the closure of find() answers true
main_keys(m) ==
    {i \in DOMAIN m.functions : name_reads(m.constants, i) /\ name_at(m.constants, i) = str_main}

\* Module::get_main, its possible outcomes: find() visits the keys in the HashMap's
\* order, stops at the first one named "main", and panics on a key it cannot read
\* or (the unwrap of None) when it has found no key
get_main(m) ==
    {[panic |-> FALSE, key |-> k] : k \in main_keys(m)}
    \cup (IF main_keys(m) = {} \/ (\E i \in DOMAIN m.functions : ~name_reads(m.constants, i))
          THEN {[panic |-> TRUE, key |-> 0]}
          ELSE {})

NoReturn == [func |-> -1, bytes |-> << >>]

\* main.rs: gen_module, then Module::run_main, which starts get_main().run(Vec::new())
Init ==
    \E inp \in Inputs, checks \in BOOLEAN :
        LET g == Build(inp, checks)
        IN  /\ input = inp
            /\ overflow_checks = checks
            /\ module = g.module
            /\ gen_info = g.info
            /\ stdout = << >>
            /\ result = << >>
            /\ last_ret = NoReturn
            /\ calls = << >>
            /\ lexer = Lexer_new(<< >>)
            /\ returned = None
            /\ stderr = << >>
            /\ cuts = << >>
            /\ IF g.panic
               THEN status = "rejected" /\ vms = << >>
               ELSE \E o \in get_main(g.module) :
                        IF o.panic THEN status = "panicked" /\ vms = << >>
                        ELSE status = "running" /\ vms = << Function_run(g.module, o.key, << >>) >>

Spec == Init /\ [][Next]_vars

\* Vm::run executes the next instruction for as long as there is one
FairSpec == Spec /\ WF_vars(Next)



(***************************************************************************)
(* A client of libvm that builds a Module call by call and then runs it:   *)
(* new_const for a string, new_const and push_fn for a function (as        *)
(* gen_module does for each FnDecl), and at last run_main.                 *)
(***************************************************************************)
MaxCalls == 3

str_mai == << 109, 97, 105 >>
str_mainx == << 109, 97, 105, 110, 120 >>
str_xmain == << 120, 109, 97, 105, 110 >>

\* "main" followed by 256 times "x": 260 bytes
str_long == str_main \o [k \in 1..256 |-> 120]

Texts == {str_main, str_mai, str_mainx, str_xmain, << >>, str_long}

InitModule ==
    /\ input = Case("module", "", 0, 0, 0)
    /\ overflow_checks = FALSE
    /\ module = Module_default
    /\ gen_info = NoInfo
    /\ stdout = << >>
    /\ result = << >>
    /\ last_ret = NoReturn
    /\ status = "building"
    /\ vms = << >>
    /\ calls = << >>
    /\ lexer = Lexer_new(<< >>)
    /\ returned = None
    /\ stderr = << >>
    /\ cuts = << >>

\* module.new_const(text) for a string that names no function
NewConst ==
    /\ status = "building"
    /\ Len(calls) < MaxCalls
    /\ \E text \in Texts :
         LET c == new_const(module, text)
         IN  /\ module' = c.module
             /\ calls' = Append(calls, [fn |-> FALSE, text |-> text, index |-> c.index])
    /\ UNCHANGED << lexer, returned, stderr, cuts, input, overflow_checks, vms, stdout, status, result, last_ret, gen_info >>

\* let index = module.new_const(name); module.push_fn(index, function): the
\* function pushed by the n-th call has the one-byte program << n >>
PushFn ==
    /\ status = "building"
    /\ Len(calls) < MaxCalls
    /\ \E name \in Texts :
         LET c == new_const(module, name)
             function == Function_new(<< Len(calls) + 1 >>, << >>, "Void")
         IN  /\ module' = push_fn(c.module, c.index, function)
             /\ calls' = Append(calls, [fn |-> TRUE, text |-> name, index |-> c.index])
    /\ UNCHANGED << lexer, returned, stderr, cuts, input, overflow_checks, vms, stdout, status, result, last_ret, gen_info >>

\* Module::run_main: get_main(), then Function::run on what it returned
RunMain ==
    /\ status = "building"
    /\ \E o \in get_main(module) :
         IF o.panic THEN status' = "panicked" /\ UNCHANGED vms
         ELSE status' = "running" /\ vms' = << Function_run(module, o.key, << >>) >>
    /\ UNCHANGED << lexer, returned, stderr, cuts, input, overflow_checks, module, stdout, result, last_ret, gen_info, calls >>

NextModule == NewConst \/ PushFn \/ RunMain

SpecModule == InitModule /\ [][NextModule]_vars


(***************************************************************************)
(* A client of the lexer: Lexer::new on a source text, then any sequence   *)
(* of next, peek, until and expect calls.  A call that hangs in the        *)
(* scanner never returns, and no further call is made.                     *)
(***************************************************************************)
MaxPeek == 3
MaxErrors == 2

\* the source texts handed to the lexer
SourceText(name) ==
    CASE name = "doctest" ->
            Text(<< "2", "3", "4", " ", "+", " ", "i", "d", "e", "n", "t" >>)
      [] name = "empty" -> << >>
      [] name = "blank" -> Text(<< " ", "\n" >>)
      [] name = "let_float" ->
            Text(<< "l", "e", "t", " ", "x", "_", "1", " ", "=", " ", "-", "2", "3", ".", "5", ";" >>)
      [] name = "int_dot_ident" -> Text(<< "2", "3", ".", "h", "e", "l", "l", "o" >>)
      [] name = "int_dot_end" -> Text(<< "2", "3", "." >>)
      [] name = "int_dot_paren" -> Text(<< "(", "7", ".", ")" >>)
      [] name = "two_dots" -> Text(<< "1", ".", "2", ".", "3" >>)
      [] name = "dot_dot_ident" -> Text(<< "4", ".", ".", "x" >>)
      [] name = "line_comment" ->
            Text(<< "a", " ", "/", "/", " ", "c", "\n", "b" >>)
      [] name = "line_comment_at_end" -> Text(<< "a", " ", "/", "/", " ", "c" >>)
      [] name = "block_comment" ->
            Text(<< "/", "*", " ", "*", " ", "/", "*", "/", " ", "y", "/", "z" >>)
      [] name = "block_comment_unclosed" -> Text(<< "a", " ", "/", "*", " ", "x", "*" >>)
      [] name = "string" -> Text(<< "f", "(", "quote", "H", "i", "quote", ")" >>)
      [] name = "string_unclosed" -> Text(<< "quote", "a", "b" >>)
      [] name = "operators" ->
            Text(<< "a", "<", "=", "b", "!", "=", "c", "-", ">", "d", "=", "=", "e", "&", "&",
                    "!", "f", "|", "g", ">", "h" >>)
      [] name = "delimiters" ->
            Text(<< "{", "[", "i", "3", "2", ":", "f", "3", "2", ",", "?", "^", "%", "]", "}", "@" >>)
      [] name = "keywords" ->
            Text(<< "f", "n", " ", "i", "f", " ", "e", "l", "s", "e", " ", "l", "o", "o", "p", " ",
                    "b", "r", "e", "a", "k", " ", "r", "e", "t", "u", "r", "n", " ", "l", "e", "t", "s" >>)

TextNames ==
    {"doctest", "empty", "blank", "let_float", "int_dot_ident", "int_dot_end", "int_dot_paren",
     "two_dots", "dot_dot_ident", "line_comment", "line_comment_at_end", "block_comment",
     "block_comment_unclosed", "string", "string_unclosed", "operators", "delimiters", "keywords"}

\* the kinds a client asks until and expect for
AskedKinds ==
    {{"Literal(Int)"}, {"Identifier"}, {"Plus", "Minus"}, {"Eof"}, {"Literal(Float)", "Dot"}}

InitLexer ==
    \E name \in TextNames :
        /\ input = Case("text", name, 0, 0, 0)
        /\ lexer = Lexer_new(SourceText(name))
        /\ returned = None
        /\ stderr = << >>
        /\ cuts = << >>
        /\ status = "lexing"
        /\ overflow_checks = FALSE
        /\ module = Module_default
        /\ gen_info = NoInfo
        /\ stdout = << >>
        /\ result = << >>
        /\ last_ret = NoReturn
        /\ vms = << >>
        /\ calls = << >>

\* a call on the lexer with the argument arg and the outcome o
LexerCall(call, arg, o) ==
    /\ status = "lexing"
    /\ IF o.hang
       THEN /\ status' = "hung"
            /\ UNCHANGED << lexer, returned, stderr, cuts >>
       ELSE /\ lexer' = o.lexer
            /\ returned' = [call |-> call, arg |-> arg, val |-> o.val]
            /\ stderr' = stderr \o o.err
            /\ cuts' = cuts \o o.cuts
            /\ UNCHANGED status
    /\ UNCHANGED << input, overflow_checks, module, vms, stdout, result, last_ret, gen_info, calls >>

LexNext == LexerCall("next", << >>, Lexer_next(lexer))

LexPeek == \E n \in 0..MaxPeek : LexerCall("peek", n, Lexer_peek(lexer, n))

LexUntil == \E kind \in AskedKinds : LexerCall("until", kind, Lexer_until(lexer, kind))

LexExpect ==
    /\ Len(stderr) < MaxErrors
    /\ \E kind \in AskedKinds, k \in {"Literal(Int)", "Identifier", "Plus", "Eof"} :
          k \in kind /\ LexerCall("expect", k, Lexer_expect(lexer, k, "test"))

NextLexer == LexNext \/ LexPeek \/ LexUntil \/ LexExpect

SpecLexer == InitLexer /\ [][NextLexer]_vars

\* the client goes on calling next for as long as a call would change anything
FairSpecLexer == SpecLexer /\ WF_vars(LexNext)


(***************************************************************************)
(* The front end as main.rs runs it: Parser::parse on a source text, then  *)
(* OpcodeGenerator::gen_module on the block parsed, whatever errors the    *)
(* parser has reported.                                                    *)
(***************************************************************************)
\* the spelling of the binary operators of the language
OperatorChars(op) ==
    CASE op = "Plus" -> << "+" >>
      [] op = "Minus" -> << "-" >>
      [] op = "Star" -> << "*" >>
      [] op = "Slash" -> << "/" >>
      [] op = "Mod" -> << "%" >>
      [] op = "Lt" -> << "<" >>
      [] op = "Gt" -> << ">" >>
      [] op = "LtEq" -> << "<", "=" >>
      [] op = "GtEq" -> << ">", "=" >>
      [] op = "Eq" -> << "=", "=" >>
      [] op = "NotEq" -> << "!", "=" >>

Operators == {"Plus", "Minus", "Star", "Slash", "Mod", "Lt", "Gt", "LtEq", "GtEq", "Eq", "NotEq"}

TypeChars(type) == IF type = "Int" THEN << "i", "3", "2" >> ELSE << "f", "3", "2" >>

\* a op1 b op2 c
PairChars(op1, op2) ==
    << "a", " " >> \o OperatorChars(op1) \o << " ", "b", " " >> \o OperatorChars(op2)
    \o << " ", "c" >>

\* fn f(x: t1, y: t2) { x op y }
BinaryChars(t1, t2, op) ==
    << "f", "n", " ", "f", "(", "x", ":", " " >> \o TypeChars(t1) \o << ",", " ", "y", ":", " " >>
    \o TypeChars(t2) \o << ")", " ", "{", " ", "x", " " >> \o OperatorChars(op)
    \o << " ", "y", " ", "}" >>

ParserChars(name) ==
    CASE name = "precedence_test" ->
            << "5", " ", "+", " ", "3", " ", "*", " ", "(", "3", " ", "+", " ", "2", ")" >>
      [] name = "paren_left" ->
            << "x", " ", "=", " ", "(", "a", " ", "+", " ", "b", ")", " ", "*", " ", "c" >>
      [] name = "paren_right" -> << "a", " ", "*", " ", "(", "b", " ", "+", " ", "c", ")" >>
      [] name = "paren_compare" ->
            << "x", " ", "=", " ", "(", "a", " ", "=", "=", " ", "b", ")", " ", "<", " ", "c" >>
      [] name = "four_levels" ->
            << "a", " ", "=", "=", " ", "b", " ", "<", " ", "c", " ", "+", " ", "d", " ", "*", " ", "e" >>
      [] name = "slash_chain" ->
            << "a", " ", "/", " ", "b", " ", "/", " ", "c", " ", "/", " ", "d" >>
      [] name = "minus_chain" ->
            << "a", " ", "-", " ", "b", " ", "-", " ", "c", " ", "-", " ", "d" >>
      [] name = "store_comparison" ->
            << "f", "n", " ", "m", "a", "i", "n", "(", ")", " ", "{", " ",
               "l", "e", "t", " ", "a", " ", "=", " ", "1", " ", "<", " ", "2", " ", "}" >>
      [] name = "fewer_arguments" ->
            << "f", "n", " ", "f", "(", "a", ":", " ", "i", "3", "2", ")", " ", "{", " ", "}", " ",
               "f", "n", " ", "m", "a", "i", "n", "(", ")", " ", "{", " ", "f", "(", ")", " ", "}" >>
      [] name = "void_value" ->
            << "f", "n", " ", "m", "a", "i", "n", "(", ")", " ", "{", " ",
               "l", "e", "t", " ", "a", " ", "=", " ", "d", "e", "b", "u", "g", "(", ")", " ", "}" >>
      [] name = "four_levels_down" ->
            << "a", " ", "*", " ", "b", " ", "+", " ", "c", " ", "<", " ", "d", " ", "=", "=", " ", "e" >>
      [] name = "main_loop" ->
            << "f", "n", " ", "m", "a", "i", "n", "(", ")", " ", "{", "\n",
               "l", "e", "t", " ", "i", " ", "=", " ", "0", "\n",
               "l", "o", "o", "p", " ", "{", "\n",
               "p", "r", "i", "n", "t", "_", "i", "n", "t", "(", "i", ")", "\n",
               "i", "f", " ", "i", " ", ">", "=", " ", "2", " ", "{", " ",
               "b", "r", "e", "a", "k", " ", "}", "\n",
               "i", " ", "=", " ", "i", " ", "+", " ", "1", "\n", "}", "\n", "}" >>
      [] name = "if_else" ->
            << "f", "n", " ", "m", "a", "i", "n", "(", ")", " ", "{", " ",
               "i", "f", " ", "1", " ", "<", " ", "2", " ", "{", " ", "d", "e", "b", "u", "g", "(", ")", " ", "}",
               " ", "e", "l", "s", "e", " ", "i", "f", " ", "3", " ", "{", " ", "}",
               " ", "e", "l", "s", "e", " ", "{", " ", "d", "e", "b", "u", "g", "(", ")", " ", "}", " ", "}" >>
      [] name = "returning" ->
            << "f", "n", " ", "g", "(", "a", ":", " ", "i", "3", "2", ")", " ", "-", ">", " ",
               "i", "3", "2", " ", "{", " ", "r", "e", "t", "u", "r", "n", " ", "a", " ", "+", " ", "1", " ", "}",
               "\n", "f", "n", " ", "m", "a", "i", "n", "(", ")", " ", "{", " ",
               "p", "r", "i", "n", "t", "_", "i", "n", "t", "(", "g", "(", "4", ")", ")", " ", "}" >>
      [] name = "unclosed_group" ->
            << "f", "n", " ", "m", "a", "i", "n", "(", ")", " ", "{", " ",
               "l", "e", "t", " ", "a", " ", "=", " ", "(", "1", " ", "}" >>
      [] name = "let_no_name" ->
            << "f", "n", " ", "m", "a", "i", "n", "(", ")", " ", "{", " ",
               "l", "e", "t", " ", "=", " ", "1", " ", "}" >>
      [] name = "let_no_equal" ->
            << "f", "n", " ", "m", "a", "i", "n", "(", ")", " ", "{", " ",
               "l", "e", "t", " ", "a", " ", "1", " ", "}" >>
      [] name = "fn_no_name" -> << "f", "n", " ", "(", ")", " ", "{", " ", "}" >>
      [] name = "fn_no_paren" -> << "f", "n", " ", "m", "a", "i", "n", " ", "{", " ", "}" >>
      [] name = "fn_no_colon" ->
            << "f", "n", " ", "m", "a", "i", "n", "(", "a", ")", " ", "{", " ", "}" >>
      [] name = "fn_no_type" ->
            << "f", "n", " ", "m", "a", "i", "n", "(", "a", ":", " ", ")", " ", "{", " ", "}" >>
      [] name = "fn_no_return_type" ->
            << "f", "n", " ", "m", "a", "i", "n", "(", ")", " ", "-", ">", " ", "{", " ", "}" >>
      [] name = "fn_no_close_paren" ->
            << "f", "n", " ", "m", "a", "i", "n", "(", "a", ":", " ", "i", "3", "2", " ", "{", " ", "}" >>
      [] name = "fn_no_brace" -> << "f", "n", " ", "m", "a", "i", "n", "(", ")", " ", "1" >>
      [] name = "fn_stray_bracket" ->
            << "f", "n", " ", "m", "a", "i", "n", "(", ")", " ", "{", " ",
               "d", "e", "b", "u", "g", "(", ")", " ", "]", " ", "}" >>
      [] name = "loop_no_brace" ->
            << "f", "n", " ", "m", "a", "i", "n", "(", ")", " ", "{", " ",
               "l", "o", "o", "p", " ", "b", "r", "e", "a", "k", " ", "}" >>
      [] name = "if_no_brace" ->
            << "f", "n", " ", "m", "a", "i", "n", "(", ")", " ", "{", " ",
               "i", "f", " ", "1", " ", "b", "r", "e", "a", "k", " ", "}" >>
      [] name = "else_no_brace" ->
            << "f", "n", " ", "m", "a", "i", "n", "(", ")", " ", "{", " ",
               "i", "f", " ", "1", " ", "{", " ", "}", " ", "e", "l", "s", "e", " ", "1", " ", "}" >>
      [] name = "no_value" ->
            << "f", "n", " ", "m", "a", "i", "n", "(", ")", " ", "{", " ",
               "l", "e", "t", " ", "a", " ", "=", " ", "}" >>
      [] name = "call_unclosed" ->
            << "f", "n", " ", "m", "a", "i", "n", "(", ")", " ", "{", " ", "f", "(", "1" >>
      [] name = "call_no_comma" ->
            << "f", "n", " ", "m", "a", "i", "n", "(", ")", " ", "{", " ",
               "f", "(", "1", " ", "2", ")", ")", " ", "}" >>
      [] name = "leading_star" ->
            << "f", "n", " ", "m", "a", "i", "n", "(", ")", " ", "{", " ",
               "l", "e", "t", " ", "a", " ", "=", " ", "*", " ", "2", " ", "}" >>
      [] name = "leading_minus" ->
            << "f", "n", " ", "m", "a", "i", "n", "(", ")", " ", "{", " ",
               "l", "e", "t", " ", "a", " ", "=", " ", "-", " ", "2", " ", "}" >>
      [] name = "comment_at_end" ->
            << "f", "n", " ", "m", "a", "i", "n", "(", ")", " ", "{", " ", "}", " ", "/", "/", " ", "x" >>
      [] name = "empty" -> << >>

ParserNames ==
    {"store_comparison", "fewer_arguments", "void_value",
     "slash_chain", "minus_chain", "precedence_test", "paren_left", "paren_right",
     "paren_compare", "four_levels", "four_levels_down", "main_loop",
     "if_else", "returning", "unclosed_group", "let_no_name", "let_no_equal", "fn_no_name",
     "fn_no_paren", "fn_no_colon", "fn_no_type", "fn_no_return_type", "fn_no_close_paren",
     "fn_no_brace", "fn_stray_bracket", "loop_no_brace", "if_no_brace", "else_no_brace",
     "no_value", "call_unclosed", "call_no_comma", "leading_star", "leading_minus",
     "comment_at_end", "empty"}

\* the tokens put in operand position
OperandTokens == {"-", "!", "1", "y", "*", "("}

\* fn f() { let x = t1 t2 t3 }
OperandChars(t1, t2, t3) ==
    << "f", "n", " ", "f", "(", ")", " ", "{", " ", "l", "e", "t", " ", "x", " ", "=", " ",
       t1, " ", t2, " ", t3, " ", "}" >>

ParserInputs ==
    {Case("pair", "", c[1], c[2], "") : c \in Operators \X Operators}
    \cup {Case("operand", "", c[1], c[2], c[3]) : c \in OperandTokens \X OperandTokens \X OperandTokens}
    \cup {Case("binary", "", c[1], c[2], c[3]) : c \in {"Int", "Float"} \X {"Int", "Float"} \X Operators}
    \cup {Case("text", n, "", "", "") : n \in ParserNames}

\* the source text of a case
ParserText(inp) ==
    CASE inp.kind = "pair" -> Text(PairChars(inp.a, inp.b))
      [] inp.kind = "binary" -> Text(BinaryChars(inp.a, inp.b, inp.op))
      [] inp.kind = "operand" -> Text(OperandChars(inp.a, inp.b, inp.op))
      [] inp.kind = "text" -> Text(ParserChars(inp.name))

\* main.rs before parser.parse(): the Parser is constructed on INPUT
InitParser ==
    \E inp \in ParserInputs, checks \in BOOLEAN :
        /\ input = inp
        /\ overflow_checks = checks
        /\ lexer = Lexer_new(ParserText(inp))
        /\ returned = None
        /\ stderr = << >>
        /\ cuts = << >>
        /\ status = "parsing"
        /\ module = Module_default
        /\ gen_info = NoInfo
        /\ stdout = << >>
        /\ result = << >>
        /\ last_ret = NoReturn
        /\ vms = << >>
        /\ calls = << >>

\* `let body = parser.parse();`: returned is the Block, stderr the errors reported
Parsing(r) ==
    IF r.p.hang
    THEN /\ status' = "hung"
         /\ UNCHANGED << lexer, returned, stderr >>
    ELSE /\ status' = "parsed"
         /\ lexer' = r.p.lexer
         /\ returned' = r.node
         /\ stderr' = r.p.err

Parse ==
        /\ status = "parsing"
        /\ Parsing(parse_block([input |-> lexer.tokens.input, lexer |-> lexer,
                                err |-> stderr, hang |-> FALSE]))
        /\ UNCHANGED << cuts, input, overflow_checks, module, vms, stdout, result, last_ret,
                        gen_info, calls >>

\* `gen.gen_module(&body); let module = gen.gen();`
Generating(g) ==
    /\ module' = g.module
    /\ gen_info' = g.info
    /\ status' = IF g.panic THEN "rejected" ELSE "generated"

Generate ==
        /\ status = "parsed"
        /\ Generating(gen_module(OpcodeGenerator_new(overflow_checks), returned, 1))
        /\ UNCHANGED << lexer, returned, stderr, cuts, input, overflow_checks, vms, stdout,
                        result, last_ret, calls >>

NextParser == Parse \/ Generate

SpecParser == InitParser /\ [][NextParser]_vars


(***************************************************************************)
(* Properties of the virtual machine.                                      *)
(***************************************************************************)
\* the i32 that four bytes are in little-endian two's complement
AsI32(bytes) ==
    bytes[1] + 256 * bytes[2] + 65536 * bytes[3]
        + 16777216 * (IF bytes[4] >= 128 THEN bytes[4] - 256 ELSE bytes[4])

IsBytes(s) == \A i \in 1..Len(s) : s[i] \in Byte

(* C1: for every i32 n, the program `PUSH_I <the four bytes of n, most     *)
(* significant first>; RET_I` run on a fresh Vm returns exactly four       *)
(* bytes, and they are n in little-endian two's complement.                *)
PushRetReturnsLittleEndian ==
    input.kind = "push_ret" =>
        /\ status \in {"running", "returned"}
        /\ status = "returned" =>
              /\ Len(result) = 4
              /\ IsBytes(result)
              /\ AsI32(result) = input.a

\* 0x12345678 has come back as 78 56 34 12
PushRetReturned ==
    /\ input.kind = "push_ret"
    /\ input.a = 305419896
    /\ status = "returned"
    /\ result = << 120, 86, 52, 18 >>

\* a op b modulo 2^32
WrappingResult(op, a, b) ==
    CASE op = ADD_I -> wrapping_add(a, b)
      [] op = SUB_I -> wrapping_sub(a, b)
      [] op = MUL_I -> wrapping_mul(a, b)
      [] op = DIV_I -> IF a = I32_MIN /\ b = -1 THEN I32_MIN ELSE trunc_div(a, b)
      [] op = MOD_I -> IF a = I32_MIN /\ b = -1 THEN 0 ELSE trunc_rem(a, b)

(* C2: for all i32 a and b # 0 and every op of ADD_I, SUB_I, MUL_I, DIV_I, *)
(* MOD_I: after a and b are pushed and op is executed the operands are     *)
(* gone and the top four bytes are the little-endian encoding of the       *)
(* wrapping result of a op b, the overflowing pairs included.              *)
ArithmeticWraps ==
    (input.kind = "arith" /\ input.b # 0) =>
        /\ status # "panicked"
        /\ (status = "running" /\ Top.index = 11) =>
              /\ Len(Top.stack) = 4
              /\ AsI32(Top.stack) = WrappingResult(input.op, input.a, input.b)

\* the size of a return type
SizeOf(return_type) == IF return_type = "Void" THEN 0 ELSE 4

(* C3: for every function the generator accepts, Function::run returns as  *)
(* many bytes as the declared return type has: four for i32 and f32, none  *)
(* for Void, on every path of the body, the paths that reach the end of    *)
(* the program without a `return` included.                                *)
RunReturnsDeclaredSize ==
    (input.kind = "source" /\ last_ret.func >= 0) =>
        Len(last_ret.bytes) = SizeOf(module.functions[last_ret.func].return_type)

\* a step in which the running Vm executes CALL and the callee's Vm starts
CallStarts == Len(vms') = Len(vms) + 1

\* a step in which the running Vm returns into the CALL of its caller
CallCompletes == Len(vms) >= 2 /\ Len(vms') = Len(vms) - 1

(* C4: for a callee with k parameters, Module::call removes exactly the    *)
(* top 4k bytes of the caller's stack and the callee starts with a         *)
(* register file equal to those bytes in their stack order, so that the    *)
(* i-th argument pushed is at regs[4i..4i+4], the slot the generator gave  *)
(* the i-th declared parameter (slots are one byte: i <= 63).              *)
CallPassesArguments ==
    /\ [][CallStarts =>
            LET caller == vms[Len(vms)]
                callee == vms'[Len(vms')]
                k == Len(module.functions[callee.func].params)
            IN  /\ Len(callee.regs) = 4 * k
                /\ vms'[Len(vms)].stack \o callee.regs = caller.stack
                /\ callee.stack = << >>
                /\ callee.index = 0
                /\ callee.program = module.functions[callee.func].program]_vars
    /\ [](\A i \in 1..Len(gen_info.params) :
            gen_info.params[i].rank <= 63 =>
                gen_info.params[i].slot = 4 * gen_info.params[i].rank)

\* f(34, 29, 2) has started with its three arguments in its regs
CalleeHoldsArguments ==
    /\ input.name = "sub3"
    /\ Len(vms) = 2
    /\ vms[2].index = 0
    /\ vms[2].regs = << 34, 0, 0, 0, 29, 0, 0, 0, 2, 0, 0, 0 >>
    /\ vms[1].stack = << >>
    /\ Len(gen_info.params) = 3

IsPrefix(s, t) == Len(s) <= Len(t) /\ SubSeq(t, 1, Len(s)) = s

\* the bytes a Vm is about to return: the top four at RET_I, none at the end
ReturnedBytes(vm) ==
    IF vm.index >= Len(vm.program) THEN << >>
    ELSE SubSeq(vm.stack, Len(vm.stack) - 3, Len(vm.stack))

(* C5: a CALL changes the caller's state only through its stack top: no    *)
(* step of the callee, or of the calls nested in it, changes the Vm of a   *)
(* caller; the CALL itself leaves the caller's regs alone and only removes *)
(* bytes from the top of its stack; and when the CALL completes the        *)
(* caller's regs are as before and its stack is the remaining bytes        *)
(* followed by exactly the bytes the callee returned.                      *)
CallKeepsCallerState ==
    [][LET n == Len(vms)
           m == Len(vms')
       IN  /\ \A i \in 1..(n - 1) : i < m => vms'[i] = vms[i]
           /\ CallStarts =>
                 /\ vms'[n].regs = vms[n].regs
                 /\ vms'[n].program = vms[n].program
                 /\ IsPrefix(vms'[n].stack, vms[n].stack)
           /\ CallCompletes =>
                 vms'[m] = [vms[m] EXCEPT !.stack = @ \o ReturnedBytes(vms[n])]]_vars

\* f(2) has called f(1), which has called f(0); f(1) and f(2) each hold their x
\* on the stack and in regs, below the CALL
NestedCallersWait ==
    /\ input.name = "recursive"
    /\ Len(vms) = 4
    /\ vms[3].stack = << 1, 0, 0, 0 >>
    /\ vms[2].stack = << 2, 0, 0, 0 >>
    /\ vms[1].regs = << 7, 0, 0, 0 >>

(***************************************************************************)
(* Properties of the generated code.                                       *)
(***************************************************************************)
\* the module is the output of a generator run that accepted its source
Generated == input.kind = "source" /\ status # "rejected"

\* the offsets of the GOTO and IF_F instructions of a program
Branches(program) ==
    {o \in instruction_starts(program, 0) : program[o + 1] \in {GOTO, IF_F}}

BoundariesAndEnd(program) == instruction_starts(program, 0) \cup {Len(program)}

BreakLeavesInnermostLoop ==
    Generated =>
        \A i \in 1..Len(gen_info.breaks) :
            LET b == gen_info.breaks[i]
                program == module.functions[b.func].program
            IN  b.loop # 0 =>
                    \A j \in 1..Len(gen_info.loops) :
                        (gen_info.loops[j].func = b.func /\ gen_info.loops[j].id = b.loop)
                        => /\ program[b.at + 1] = GOTO
                           /\ program[b.at + 2] = gen_info.loops[j].end

\* the lines print_int writes for 0, 1, ..., 10
ZeroToTen == [i \in 1..11 |-> [kind |-> "int", val |-> << i - 1 >>]]

(* C9: running main generated from the counting loop                       *)
(* `fn main() { let i = 0 loop { print_int(i) if i >= 10 { break }         *)
(* i = i + 1 } }` prints exactly the eleven values 0, 1, ..., 10 in that   *)
(* order and then terminates with run returning the empty sequence.        *)
CountingLoopPrintsZeroToTen ==
    /\ [](input.name = "count" =>
            /\ status \in {"running", "returned"}
            /\ IsPrefix(stdout, ZeroToTen)
            /\ status = "returned" => (stdout = ZeroToTen /\ result = << >>))
    /\ (input.name = "count") ~> (status = "returned")

\* the counting loop has ended after its eleventh line
CountingLoopDone ==
    /\ input.name = "count"
    /\ status = "returned"
    /\ Len(stdout) = 11
    /\ stdout[11].val = << 10 >>
    /\ result = << >>

\* the calls that pushed a function named exactly "main"
MainCalls == {i \in 1..Len(calls) : calls[i].fn /\ calls[i].text = str_main}

RECURSIVE Entries(_)
Entries(n) ==
    IF n = 0 THEN << >>
    ELSE (Entries(n - 1) \o << Len(calls[n].text) >>) \o calls[n].text

(* C11: after any sequence of new_const calls with arbitrary texts the     *)
(* pool is the concatenation, in call order, of one entry per call, a      *)
(* length byte then the text's bytes, and every index a call returned      *)
(* still holds the byte length of that call's text followed by its bytes.  *)
PoolHoldsEveryText ==
    /\ IsBytes(module.constants)
    /\ module.constants = Entries(Len(calls))
    /\ \A n \in 1..Len(calls) :
          LET i == calls[n].index
              length == Len(calls[n].text)
          IN  /\ i + length < Len(module.constants)
              /\ module.constants[i + 1] = length
              /\ SubSeq(module.constants, i + 2, i + 1 + length) = calls[n].text

\* the stack of main before the LDC of an "ldc" case
LdcBase == << 7, 0, 0, 0 >>

(* C12: for a string s of length L at constant index i, after LDC i the top  *)
(* byte of the stack is L and the next L pops yield the bytes of s from the  *)
(* first to the last; LDC i followed by VIRTUAL 2 prints exactly s and       *)
(* leaves the stack as it was before the LDC.  (Indexes of one byte and      *)
(* strings of at most 255 bytes: the operand of LDC and the length byte of   *)
(* the pool are one byte each.)                                              *)
LdcThenPrintStr ==
    input.kind = "ldc" =>
        LET s == ldc_texts[input.a]
            L == Len(s)
        IN  /\ status \in {"running", "returned"}
            /\ (status = "running" /\ Top.index < 9) => stdout = << >>
            /\ (status = "running" /\ Top.index = 7) =>
                  /\ Len(Top.stack) = Len(LdcBase) + L + 1
                  /\ SubSeq(Top.stack, 1, Len(LdcBase)) = LdcBase
                  /\ Top.stack[Len(Top.stack)] = L
                  /\ \A k \in 1..L : Top.stack[Len(Top.stack) - k] = s[k]
            /\ (status = "running" /\ Top.index = 9) =>
                  /\ Top.stack = LdcBase
                  /\ stdout = << [kind |-> "str", val |-> s] >>
            /\ status = "returned" =>
                  /\ result = LdcBase
                  /\ stdout = << [kind |-> "str", val |-> s] >>

LdcPrintedHi ==
    /\ input.kind = "ldc"
    /\ ldc_texts[input.a] = str_Hi
    /\ status = "returned"
    /\ result = LdcBase
    /\ stdout = << [kind |-> "str", val |-> str_Hi] >>

\* the opcodes of the instruction-set table
InstructionSet ==
    {NOP, PUSH_I, ADD_I, SUB_I, MUL_I, DIV_I, MOD_I, NEG_I, ADD_F, SUB_F, MUL_F, DIV_F, MOD_F,
     NE, EQ, GT_I, LT_I, LE_I, GE_I, GT_F, LT_F, LE_F, GE_F, NOT, CMP_I, DUP_I, GOTO,
     IF_T, IF_F, IF_NE, IF_EQ, IF_GT, IF_LT, IF_LE, IF_GE, LOAD_I, STO_I, LDC, CALL, VIRTUAL, RET_I}

(* C13: every opcode of the instruction-set table is dispatched by execute   *)
(* without the unknown-opcode abort; NOP advances the instruction index by   *)
(* exactly 1 and leaves the stack and the registers unchanged.               *)
TableOpcodesAreDispatched ==
    [][/\ \A op \in InstructionSet : Fetches(op) => ~ExecUnknown
       /\ Fetches(NOP) =>
             /\ status' = "running"
             /\ Len(vms') = Len(vms)
             /\ vms'[Len(vms)].index = Top.index + 1
             /\ vms'[Len(vms)].stack = Top.stack
             /\ vms'[Len(vms)].regs = Top.regs]_vars

\* the operand of the branch instruction that is about to be fetched
BranchOperand == Top.program[Top.index + 2]

\* execute is about to run a GOTO, or an IF_* that will be taken, with its operand present
BranchTaken ==
    /\ status = "running"
    /\ Top.index + 1 < Len(Top.program)
    /\ \/ current(Top) = GOTO
       \/ /\ current(Top) \in {IF_T, IF_F, IF_NE, IF_EQ, IF_GT, IF_LT, IF_LE, IF_GE}
          /\ Len(Top.stack) >= 1
          /\ Top.stack[Len(Top.stack)] \in ordering(current(Top))

\* the next step fetches a byte that is no opcode, pops from the empty stack, or
\* divides by zero
FetchesFault ==
    /\ status = "running"
    /\ Top.index < Len(Top.program)
    /\ \/ current(Top) \notin InstructionSet
       \/ /\ current(Top) \in PoppingOps
          /\ Top.stack = << >>
          /\ current(Top) = VIRTUAL =>
                (Top.index + 1 < Len(Top.program) /\ BranchOperand \in {0, 2})
       \/ /\ current(Top) \in {DIV_I, MOD_I}
          /\ Len(Top.stack) >= 8
          /\ pop_i32(Top.stack) = 0

(* C14, as stated: an unknown opcode, a pop from the empty stack, a DIV_I or *)
(* MOD_I by zero, and a GOTO or taken IF_* whose operand is greater than or  *)
(* equal to the program length each abort the VM.                            *)
RuntimeFaultsAbort ==
    [][/\ FetchesFault => status' = "panicked"
       /\ (BranchTaken /\ BranchOperand >= Len(Top.program)) => status' = "panicked"]_vars

(* C14, amended: the first three faults abort the VM; a GOTO or taken IF_*   *)
(* whose operand is greater than or equal to the program length does not:    *)
(* the index becomes the operand, and run() then leaves its loop and returns *)
(* the empty vector to its caller.                                           *)
FaultsAbortButBranchOutReturns ==
    [][/\ FetchesFault => status' = "panicked"
       /\ (BranchTaken /\ BranchOperand >= Len(Top.program)) =>
             /\ status' = "running"
             /\ Len(vms') = Len(vms)
             /\ vms'[Len(vms)].index = BranchOperand
       /\ (status = "running" /\ Top.index >= Len(Top.program)) =>
             /\ status' # "panicked"
             /\ last_ret' = [func |-> Top.func, bytes |-> << >>]
             /\ Len(vms) = 1 => (status' = "returned" /\ result' = << >>)]_vars

\* a taken IF_F with operand 200 in a program of 7 bytes has returned the empty vector
BranchedOutAndReturned ==
    /\ input.kind = "bytes"
    /\ input.name = "if_out"
    /\ status = "returned"
    /\ result = << >>

(***************************************************************************)
(* Properties of the lexer and the parser.                                 *)
(***************************************************************************)
RECURSIVE CutLength(_)
CutLength(raw) == IF raw = << >> THEN 0 ELSE raw[1].len + CutLength(Tail(raw))

\* Lexer::next has returned the Eof token with the whole text consumed
EofReached ==
    /\ returned = [call |-> "next", arg |-> << >>, val |-> eof]
    /\ lexer.tokens.input = << >>
    /\ lexer.tokens.pos = Len(SourceText(input.name))

(* C15: for every source text, repeated calls of Lexer::next reach the Eof   *)
(* token after finitely many steps, every raw token the scanner cuts         *)
(* (whitespace and comments included) has a length of at least 1, and the    *)
(* lengths of the raw tokens sum to the length of the input; texts that end  *)
(* in a line comment without a newline or in an unclosed block comment       *)
(* included.                                                                 *)
LexerReachesEof ==
    /\ [](/\ status # "hung"
          /\ \A i \in 1..Len(cuts) : cuts[i].len >= 1
          /\ CutLength(cuts) = lexer.tokens.pos
          /\ EofReached => CutLength(cuts) = Len(SourceText(input.name)))
    /\ <>EofReached

\* the token the (n + 1)-th of successive calls of next returns, n >= 0
RECURSIVE NthNext(_, _)
NthNext(lx, n) ==
    IF n = 0 THEN Lexer_next(lx).val ELSE NthNext(Lexer_next(lx).lexer, n - 1)

\* how many of the raw tokens are neither whitespace nor comment
RECURSIVE Tokens(_)
Tokens(raw) ==
    IF raw = << >> THEN 0
    ELSE (IF raw[1].kind \in {"Whitespace", "Comment"} THEN 0 ELSE 1) + Tokens(Tail(raw))

\* the step consumes exactly one token, the one next() would return, and returns it
\* (at the end of the input that token is the Eof that next() makes up, of no length)
ConsumesOne ==
    /\ returned'.val = Some(NthNext(lexer, 0))
    /\ lexer' = Lexer_next(lexer).lexer
    /\ Tokens(cuts') = Tokens(cuts) + (IF NthNext(lexer, 0) = eof THEN 0 ELSE 1)
    /\ lexer'.tokens.pos = CutLength(cuts')

\* the step consumes nothing and returns None
ConsumesNone ==
    /\ returned'.val = None
    /\ lexer' = lexer
    /\ cuts' = cuts

(* C16: lookahead does not consume.  peek(n) returns the token that the      *)
(* (n+1)-th following call of next returns and leaves the lexer as it was;   *)
(* until(kinds) and expect(kind, msg) consume exactly one token when the     *)
(* kind of the next token matches and nothing when it does not; expect then  *)
(* reports one error, until reports none.  (Of the calls that return.)       *)
LookaheadDoesNotConsume ==
    [][(status' = "lexing" /\ returned' # None) =>
          /\ returned'.call = "peek" =>
                /\ returned'.val = NthNext(lexer, returned'.arg)
                /\ lexer' = lexer
                /\ cuts' = cuts
                /\ stderr' = stderr
          /\ returned'.call = "until" =>
                /\ stderr' = stderr
                /\ IF NthNext(lexer, 0).kind \in returned'.arg THEN ConsumesOne ELSE ConsumesNone
          /\ returned'.call = "expect" =>
                IF NthNext(lexer, 0).kind = returned'.arg
                THEN ConsumesOne /\ stderr' = stderr
                ELSE ConsumesNone /\ Len(stderr') = Len(stderr) + 1]_vars

\* peek(2) on "234 + ident" has returned the identifier and nothing is consumed
PeekedTwoAhead ==
    /\ input = Case("text", "doctest", 0, 0, 0)
    /\ returned = [call |-> "peek", arg |-> 2, val |-> Token("Identifier", Span_new(6, 11))]
    /\ lexer = Lexer_new(SourceText("doctest"))
    /\ cuts = << >>

\* the offset at which the i-th raw token starts
CutStart(i) == CutLength(SubSeq(cuts, 1, i - 1))

\* the text of the i-th raw token
CutText(i) == SubSeq(SourceText(input.name), CutStart(i) + 1, CutStart(i) + cuts[i].len)

\* the char that follows the i-th raw token by k, NUL past the end
CharAfter(i, k) == Cursor_peek(SourceText(input.name), CutStart(i) + cuts[i].len, k)

AllDigits(text) == \A j \in 1..Len(text) : ascii_digit(text[j])

\* digits, one dot, digits, with at least one digit on either side
DigitsDotDigits(text) ==
    \E d \in 2..(Len(text) - 1) :
        /\ text[d] = ord(".")
        /\ AllDigits(SubSeq(text, 1, d - 1))
        /\ AllDigits(SubSeq(text, d + 1, Len(text)))

(* C17: a number token is the leading run of ASCII digits, extended by a     *)
(* `.` and the digits after it only when the `.` is followed by a digit:     *)
(* every Float token is digits `.` digits with exactly one dot and at least  *)
(* one digit after it, every other number token is Int, has no dot, and is   *)
(* not followed by a `.` and a digit; `23.hello` lexes as Int, Dot,          *)
(* Identifier.                                                               *)
NumberTokensWellFormed ==
    /\ \A i \in 1..Len(cuts) :
          /\ cuts[i].kind = "Literal(Float)" =>
                (DigitsDotDigits(CutText(i)) /\ ~ascii_digit(CharAfter(i, 0)))
          /\ cuts[i].kind = "Literal(Int)" =>
                /\ AllDigits(CutText(i))
                /\ ~ascii_digit(CharAfter(i, 0))
                /\ ~(CharAfter(i, 0) = ord(".") /\ ascii_digit(CharAfter(i, 1)))
    /\ (input.name = "int_dot_ident" /\ EofReached) =>
          cuts = << [kind |-> "Literal(Int)", len |-> 2], [kind |-> "Dot", len |-> 1],
                    [kind |-> "Identifier", len |-> 5] >>

\* the identifier and the integer literal that a one-char text parses to
Var(char) == Ident(Text(<< char >>))

Num(char) == Literal("Int", Text(<< char >>))

\* the precedence level of an operator, lowest first; 0 for an operator of no level
Level(op) ==
    CASE op \in {"Eq", "NotEq"} -> 1
      [] op \in {"Lt", "Gt", "LtEq", "GtEq"} -> 2
      [] op \in {"Plus", "Minus"} -> 3
      [] op \in {"Star", "Slash"} -> 4
      [] OTHER -> 0

\* parser.parse() has returned
ParseReturned == status \in {"parsed", "generated", "rejected"}

\* the tree of `a op1 b op2 c` when the operator of the lower level is at the root
PairTree(op1, op2) ==
    IF Level(op1) < Level(op2)
    THEN Binary(Var("a"), op1, Binary(Var("b"), op2, Var("c")))
    ELSE Binary(Binary(Var("a"), op1, Var("b")), op2, Var("c"))

ParsedText(name) == ParseReturned /\ input.kind = "text" /\ input.name = name

(* C18: in an expression that mixes operators of different precedence levels *)
(* without parentheses the operator of the lower level (equality <           *)
(* comparison < addition < multiplication) is nearer the root of the parsed  *)
(* tree: `a + b * c` is a + (b * c), `a * b + c` is (a * b) + c, `a < b + c` *)
(* is a < (b + c), `a == b < c` is a == (b < c); a parenthesised             *)
(* sub-expression is one operand, and the root of `5 + 3 * (3 + 2)` is Plus. *)
LowerLevelNearerRoot ==
    /\ (/\ ParseReturned
        /\ input.kind = "pair"
        /\ Level(input.a) # 0
        /\ Level(input.b) # 0
        /\ Level(input.a) # Level(input.b)) =>
            (returned = << Expression(PairTree(input.a, input.b)) >> /\ stderr = << >>)
    /\ ParsedText("four_levels") =>
            returned = << Expression(
                Binary(Var("a"), "Eq",
                    Binary(Var("b"), "Lt",
                        Binary(Var("c"), "Plus", Binary(Var("d"), "Star", Var("e")))))) >>
    /\ ParsedText("four_levels_down") =>
            returned = << Expression(
                Binary(Binary(Binary(Binary(Var("a"), "Star", Var("b")), "Plus", Var("c")),
                              "Lt", Var("d")),
                       "Eq", Var("e"))) >>
    /\ ParsedText("precedence_test") =>
            returned = << Expression(
                Binary(Num("5"), "Plus",
                    Binary(Num("3"), "Star", Binary(Num("3"), "Plus", Num("2"))))) >>
    /\ ParsedText("paren_left") =>
            returned = << Mutate(Text(<< "x" >>),
                Binary(Binary(Var("a"), "Plus", Var("b")), "Star", Var("c"))) >>
    /\ ParsedText("paren_right") =>
            returned = << Expression(
                Binary(Var("a"), "Star", Binary(Var("b"), "Plus", Var("c")))) >>
    /\ ParsedText("paren_compare") =>
            returned = << Mutate(Text(<< "x" >>),
                Binary(Binary(Var("a"), "Eq", Var("b")), "Lt", Var("c"))) >>

\* `a + b * c` has been parsed to a + (b * c)
PlusOverStarParsed ==
    /\ status = "parsed"
    /\ input.kind = "pair" /\ input.a = "Plus" /\ input.b = "Star"
    /\ returned = << Expression(Binary(Var("a"), "Plus", Binary(Var("b"), "Star", Var("c")))) >>

\* the AST node is Dummy or has a Dummy statement or expression below it
RECURSIVE HasDummy(_)
HasDummy(node) ==
    CASE node.t = "Dummy" -> TRUE
      [] node.t = "Binary" -> HasDummy(node.lhs) \/ HasDummy(node.rhs)
      [] node.t = "Unary" -> HasDummy(node.expr)
      [] node.t = "FunctionCall" -> \E i \in 1..Len(node.exprs) : HasDummy(node.exprs[i])
      [] node.t \in {"Assign", "Mutate", "Return", "Expression"} -> HasDummy(node.expr)
      [] node.t = "FnDecl" -> \E i \in 1..Len(node.block) : HasDummy(node.block[i])
      [] node.t \in {"Else", "Loop"} -> \E i \in 1..Len(node.block) : HasDummy(node.block[i])
      [] node.t = "If" ->
            \/ HasDummy(node.expr)
            \/ \E i \in 1..Len(node.block) : HasDummy(node.block[i])
            \/ HasDummy(node.next)
      [] OTHER -> FALSE

\* the block returned by parse has a Dummy node somewhere
DummyReturned == \E i \in 1..Len(returned) : HasDummy(returned[i])

(* C19: whenever the parser has reported a missing expected token through   *)
(* the context, the AST returned by parse contains a Dummy statement or     *)
(* Dummy expression, so that code generation of that AST aborts and no      *)
(* Function is produced for the declaration that contains the error.        *)
ReportedErrorLeavesDummy ==
    /\ (ParseReturned /\ stderr # << >>) => DummyReturned
    /\ (status = "generated" /\ stderr # << >>) => module.functions = << >>

\* `fn main() { let a = (1 }`: the missing `)` has been reported, the AST has no Dummy
\* node and the generator has produced the Function of main
UnclosedGroupGenerated ==
    /\ status = "generated"
    /\ ParsedText("unclosed_group")
    /\ stderr # << >>
    /\ ~DummyReturned
    /\ module.functions # << >>

\* the opcode the operator-to-opcode table lists for an operator and an operand type
TableOpcode(op, type) ==
    CASE op = "Plus" -> IF type = "Int" THEN ADD_I ELSE ADD_F
      [] op = "Minus" -> IF type = "Int" THEN SUB_I ELSE SUB_F
      [] op = "Star" -> IF type = "Int" THEN MUL_I ELSE MUL_F
      [] op = "Slash" -> IF type = "Int" THEN DIV_I ELSE DIV_F
      [] op = "Mod" -> IF type = "Int" THEN MOD_I ELSE MOD_F
      [] op = "Lt" -> IF type = "Int" THEN LT_I ELSE LT_F
      [] op = "Gt" -> IF type = "Int" THEN GT_I ELSE GT_F
      [] op = "LtEq" -> IF type = "Int" THEN LE_I ELSE LE_F
      [] op = "GtEq" -> IF type = "Int" THEN GE_I ELSE GE_F
      [] op = "Eq" -> EQ
      [] op = "NotEq" -> NE

\* gen_module has returned or panicked on `fn f(x: t1, y: t2) { x op y }`
BinaryLoweredCase == status \in {"generated", "rejected"} /\ input.kind = "binary"

\* the code of the parameters x and y of f: they are the variables at 0 and 4
OperandsCode == << LOAD_I, 0, LOAD_I, 4 >>

(* C20: for each binary operator of the operator-to-opcode table            *)
(* (+ - * / % < > <= >= == !=) and operands x, y of the same type (both I32 *)
(* or both F32) the expression `x op y`, parsed and lowered by gen_expr, is *)
(* the code of x, the code of y and then the one opcode the table lists for *)
(* the operator and the type; operands of different types are rejected.     *)
BinaryEmitsTableOpcode ==
    BinaryLoweredCase =>
        IF input.a = input.b
        THEN /\ status = "generated"
             /\ stderr = << >>
             /\ DOMAIN module.functions = {0}
             /\ module.functions[0].program =
                    OperandsCode \o << TableOpcode(input.op, input.a) >>
        ELSE status = "rejected"

\* `fn f(x: i32, y: i32) { x % y }`: the body of f is the code of x alone, and the
\* block has reported the `%` it stopped at
PercentNotLowered ==
    /\ status = "generated"
    /\ input.kind = "binary" /\ input.a = "Int" /\ input.b = "Int" /\ input.op = "Mod"
    /\ returned[1].block = << Expression(Var("x")) >>
    /\ stderr # << >>
    /\ module.functions[0].program = << LOAD_I, 0 >>

\* the Vm at the top runs a generated function and is about to execute op with an operand
ExecutesWithOperand(op) ==
    /\ input.kind = "source"
    /\ Fetches(op)
    /\ Top.index + 1 < Len(Top.program)

\* the operand byte of the instruction the Vm at the top is about to execute
Operand == Top.program[Top.index + 2]

(* C21: in every execution of every function emitted by the generator, a    *)
(* STO_I slot that executes with len(regs) <= slot + 3 finds len(regs) =     *)
(* slot, so that the four appended bytes land at regs[slot..slot+4], and a   *)
(* LOAD_I slot that executes finds slot + 4 <= len(regs); this covers a let  *)
(* inside an if block or after a break, whose STO_I is skipped while a       *)
(* variable declared later is stored.                                        *)
StoresAppendAtTheirSlot ==
    /\ (ExecutesWithOperand(STO_I) /\ Len(Top.regs) <= Operand + 3) => Len(Top.regs) = Operand
    /\ ExecutesWithOperand(LOAD_I) => Operand + 4 <= Len(Top.regs)

\* `let b = 7` after a skipped `let a = 5`: b has slot 8 and regs holds the 4 bytes of i
StoreBeyondRegs ==
    /\ input.kind = "source" /\ input.name = "let_in_if"
    /\ ExecutesWithOperand(STO_I)
    /\ Operand = 8
    /\ Len(Top.regs) = 4

\* print_int(b) reads slot 8 of the 8 bytes of regs and the Vm panics
LoadBeyondRegs ==
    /\ input.kind = "source" /\ input.name = "let_in_if"
    /\ status = "panicked"
    /\ Len(Top.regs) = 8
    /\ stdout = << >>

\* the block with the else arm of every if removed
RECURSIVE without_else(_)
without_else(block) ==
    [k \in 1..Len(block) |->
        CASE block[k].t = "If" -> If(block[k].expr, without_else(block[k].block), None)
          [] block[k].t = "Loop" -> Loop(without_else(block[k].block))
          [] block[k].t = "FnDecl" ->
                FnDecl(block[k].name, block[k].args, block[k].return_type,
                       without_else(block[k].block))
          [] OTHER -> block[k]]

\* the sources of the model in which an if has an else arm
ElseSources == {"if_else", "else_if_chain", "else_declares", "else_only_variable"}

\* the generator after gen_module of the case's source with every else arm removed
GeneratedWithoutElse ==
    gen_module(OpcodeGenerator_new(overflow_checks), without_else(Source(input.name)), 1)

(* C22: the generator ignores the else arm of an if: the bytes emitted for   *)
(* `if e { A } else { B }` and for an else-if chain are the bytes emitted    *)
(* for `if e { A }` alone, so that no instruction of B is emitted or         *)
(* executed and a variable declared only in B gets no slot.                  *)
ElseArmIsIgnored ==
    (input.kind = "source" /\ input.name \in ElseSources) =>
        /\ without_else(Source(input.name)) # Source(input.name)
        /\ module = GeneratedWithoutElse.module
        /\ gen_info = GeneratedWithoutElse.info
        /\ (status = "rejected") = GeneratedWithoutElse.panic
        /\ input.name = "else_only_variable" => status = "rejected"
        /\ (input.name = "if_else" /\ status = "returned") =>
                stdout = << [kind |-> "int", val |-> << 1 >>], [kind |-> "int", val |-> << 3 >>] >>

\* `if i == 0 { let a = 5 } else { let b = 6 } let x = 7 print_int(x)` has run: x has
\* the slot after a's, and 7 is printed
ElseDeclaresRan ==
    /\ input.kind = "source" /\ input.name = "else_declares"
    /\ status = "returned"
    /\ stdout = << [kind |-> "int", val |-> << 7 >>] >>
    /\ module.functions[0].program =
            << PUSH_I, 0, 0, 0, 0, STO_I, 0, LOAD_I, 0, PUSH_I, 0, 0, 0, 0, EQ, IF_F, 24,
               PUSH_I, 0, 0, 0, 5, STO_I, 4, PUSH_I, 0, 0, 0, 7, STO_I, 8, LOAD_I, 8, VIRTUAL, 0 >>

\* the tree of `a op1 b op2 c` for two operators of one level: nested to the right at
\* the multiplication level, to the left at the other levels
ChainTree(op1, op2) ==
    IF Level(op1) = 4
    THEN Binary(Var("a"), op1, Binary(Var("b"), op2, Var("c")))
    ELSE Binary(Binary(Var("a"), op1, Var("b")), op2, Var("c"))

(* C23: a chain of operators of one precedence level associates to the      *)
(* right for `*` and `/` (`a / b / c` is a / (b / c), `a * b / c` is         *)
(* a * (b / c)) and to the left for `+ -`, for the comparisons and for       *)
(* `== !=` (`a - b - c` is (a - b) - c).                                     *)
ChainsAssociate ==
    /\ (/\ ParseReturned
        /\ input.kind = "pair"
        /\ Level(input.a) # 0
        /\ Level(input.a) = Level(input.b)) =>
            (returned = << Expression(ChainTree(input.a, input.b)) >> /\ stderr = << >>)
    /\ ParsedText("slash_chain") =>
            returned = << Expression(
                Binary(Var("a"), "Slash",
                    Binary(Var("b"), "Slash", Binary(Var("c"), "Slash", Var("d"))))) >>
    /\ ParsedText("minus_chain") =>
            returned = << Expression(
                Binary(Binary(Binary(Var("a"), "Minus", Var("b")), "Minus", Var("c")),
                       "Minus", Var("d"))) >>

\* `a * b / c` has been parsed to a * (b / c)
StarSlashNestedRight ==
    /\ status = "parsed"
    /\ input.kind = "pair" /\ input.a = "Star" /\ input.b = "Slash"
    /\ returned = << Expression(Binary(Var("a"), "Star", Binary(Var("b"), "Slash", Var("c")))) >>

\* the AST node is a Unary whose operator is in ops, or has one below it
RECURSIVE HasUnary(_, _)
HasUnary(node, ops) ==
    CASE node.t = "Unary" -> node.op \in ops \/ HasUnary(node.expr, ops)
      [] node.t = "Binary" -> HasUnary(node.lhs, ops) \/ HasUnary(node.rhs, ops)
      [] node.t = "FunctionCall" -> \E i \in 1..Len(node.exprs) : HasUnary(node.exprs[i], ops)
      [] node.t \in {"Assign", "Mutate", "Return", "Expression"} -> HasUnary(node.expr, ops)
      [] node.t \in {"FnDecl", "Else", "Loop"} ->
            \E i \in 1..Len(node.block) : HasUnary(node.block[i], ops)
      [] node.t = "If" ->
            \/ HasUnary(node.expr, ops)
            \/ \E i \in 1..Len(node.block) : HasUnary(node.block[i], ops)
            \/ HasUnary(node.next, ops)
      [] OTHER -> FALSE

\* a function of the module has the opcode op at an instruction boundary
EmitsOpcode(op) ==
    \E f \in DOMAIN module.functions :
        \E o \in instruction_starts(module.functions[f].program, 0) :
            module.functions[f].program[o + 1] = op

\* the report of a missing value at the token that covers [from, to)
ExpectedValueAt(from, to) == [span |-> Span_new(from, to), message |-> "Expected a value"]

\* parse has returned from `fn f() { let x = t1 t2 t3 }`
OperandParsed == ParseReturned /\ input.kind = "operand"

(* C24: the unary forms cannot be reached from source text: the AST returned *)
(* by the parser has no Unary node whose operator is Minus or Not, so the    *)
(* generator emits no NEG_I and no NOT for a parsed program, and a `-` or    *)
(* `!` in operand position is reported as a missing value.                   *)
NoUnaryMinusOrNot ==
    /\ ParseReturned => \A i \in 1..Len(returned) : ~HasUnary(returned[i], {"Minus", "Not"})
    /\ status = "generated" => (~EmitsOpcode(NEG_I) /\ ~EmitsOpcode(NOT))
    /\ (OperandParsed /\ input.a \in {"-", "!"}) =>
            (stderr # << >> /\ stderr[1] = ExpectedValueAt(17, 18) /\ DummyReturned)
    /\ (OperandParsed /\ input.a = "1" /\ input.b = "*" /\ input.op \in {"-", "!"}) =>
            (stderr # << >> /\ stderr[1] = ExpectedValueAt(21, 22) /\ DummyReturned)
    /\ (OperandParsed /\ input.a = "(" /\ input.b \in {"-", "!"}) =>
            (stderr # << >> /\ stderr[1] = ExpectedValueAt(19, 20) /\ DummyReturned)

\* `fn f() { let x = - 1 * }`: the `-` is reported and x is assigned Dummy
MinusOperandReported ==
    /\ status = "rejected"
    /\ OperandParsed /\ input.a = "-" /\ input.b = "1" /\ input.op = "*"
    /\ stderr[1] = ExpectedValueAt(17, 18)
    /\ returned[1].block[1] = Assign(Text(<< "x" >>), DummyExpr)

\* the generator after gen_module has lowered the first k statements of the case's source
GeneratedPrefix(k) ==
    gen_module(OpcodeGenerator_new(overflow_checks), SubSeq(Source(input.name), 1, k), 1)

\* the per-function state of the generator is clear
PerFunctionStateClear(g) ==
    /\ g.out = << >>
    /\ DOMAIN g.var_map = {}
    /\ g.break_me = << >>
    /\ g.var_index = 0

\* the program of the function generated alone from statement k of the case's source
AloneProgram(k) ==
    gen_module(OpcodeGenerator_new(overflow_checks), << Source(input.name)[k] >>, 1)
        .module.functions[0].program

(* C25: after gen_module has lowered a FnDecl the output buffer, the         *)
(* variable map and the pending-break list are empty and the slot counter   *)
(* is 0; so in a module of several functions each program starts at offset  *)
(* 0 of its own buffer, the parameters start at slot 0, no variable or       *)
(* parameter of an earlier function resolves in a later one, and no pending *)
(* break of an earlier function is patched by a loop of a later one.         *)
ResetBetweenFunctions ==
    input.kind = "source" =>
        /\ \A k \in 0..Len(Source(input.name)) :
                ~GeneratedPrefix(k).panic => PerFunctionStateClear(GeneratedPrefix(k))
        /\ input.name = "two_functions" =>
                /\ status # "rejected"
                /\ module.functions[0].program = << PUSH_I, 0, 0, 0, 5, STO_I, 4, GOTO, 0 >>
                /\ module.functions[2].program = AloneProgram(2)
                /\ module.functions[2].program =
                        << PUSH_I, 0, 0, 0, 7, STO_I, 0, GOTO, 11, GOTO, 7, LOAD_I, 0, VIRTUAL, 0 >>
        /\ input.name \in {"earlier_variable", "earlier_parameter"} => status = "rejected"

\* main of two_functions has run after f left a pending break: x is at slot 0 and the
\* break of main's loop leaves the loop
SecondFunctionRan ==
    /\ input.kind = "source" /\ input.name = "two_functions"
    /\ status = "returned"
    /\ stdout = << [kind |-> "int", val |-> << 7 >>] >>

\* the operand of the STO_I of the k-th let of f, in a body that starts with lets of
\* integer literals: each let is PUSH_I with its four bytes, then STO_I and the slot
LetSlot(k) == module.functions[0].program[7 * k]

\* the function f of redeclared has been generated
RedeclaredGenerated == input.kind = "source" /\ input.name = "redeclared" /\ status # "rejected"

\* the function f of many_variables has been generated
ManyVariablesGenerated ==
    input.kind = "source" /\ input.name = "many_variables" /\ status # "rejected"

(* C26: in every function the generator emits, the parameters have the      *)
(* slots 0, 4, 8, .. in declaration order, a let of a new name takes the    *)
(* next unused multiple of 4, a let of a name already seen reuses its slot, *)
(* and two names never share a slot, for any number of variables: every     *)
(* slot operand is 4 times the declaration rank of its variable.            *)
SlotIsFourTimesRank ==
    /\ (input.kind = "source" /\ status # "rejected") =>
            \A i \in 1..Len(gen_info.params) : gen_info.params[i].slot = 4 * gen_info.params[i].rank
    /\ RedeclaredGenerated =>
            module.functions[0].program =
                << PUSH_I, 0, 0, 0, 1, STO_I, 8, PUSH_I, 0, 0, 0, 2, STO_I, 12,
                   PUSH_I, 0, 0, 0, 3, STO_I, 8, PUSH_I, 0, 0, 0, 4, STO_I, 0,
                   PUSH_I, 0, 0, 0, 5, STO_I, 16 >>
    /\ ManyVariablesGenerated =>
            /\ LetSlot(1) = 4 * (ManyVariables - 1)
            /\ \A i \in 1..Len(gen_info.params) : gen_info.params[i].slot # LetSlot(1)

\* many_variables has run without overflow checks: the variable of the let shares
\* slot 0 with the first parameter, and print_int(aa) prints the value of the let
FirstVariableOverwritten ==
    /\ ManyVariablesGenerated
    /\ ~overflow_checks
    /\ status = "returned"
    /\ gen_info.params[1].slot = 0
    /\ LetSlot(1) = 0
    /\ stdout = << [kind |-> "int", val |-> << ManyVariables - 1 >>] >>

\* the operand byte of the instruction at offset at of the function func
OperandIn(func, at) == module.functions[func].program[at + 2]

\* the function func of a generated module has more than 255 bytes of code
CodePast255(func) ==
    /\ input.kind = "source"
    /\ status # "rejected"
    /\ Len(module.functions[func].program) > 255

\* the loop a break was generated in, as the generator recorded it
LoopOf(break) ==
    CHOOSE i \in 1..Len(gen_info.loops) :
        gen_info.loops[i].func = break.func /\ gen_info.loops[i].id = break.loop

(* C27: when the code of a function grows past 255 bytes the generator      *)
(* reports an error or widens the operand: it emits no one-byte IF_F or     *)
(* GOTO operand that differs from the intended target offset, and, when the *)
(* pool is longer than 255 bytes, no one-byte CALL or LDC operand that      *)
(* differs from the pool index it stands for.                               *)
OperandsAreTheirTargets ==
    /\ \A i \in 1..Len(gen_info.ifs) :
            CodePast255(gen_info.ifs[i].func) =>
                OperandIn(gen_info.ifs[i].func, gen_info.ifs[i].at) = gen_info.ifs[i].after
    /\ \A i \in 1..Len(gen_info.loops) :
            CodePast255(gen_info.loops[i].func) =>
                OperandIn(gen_info.loops[i].func, gen_info.loops[i].goto) = gen_info.loops[i].start
    /\ (input.kind = "source" /\ input.name = "loop_past_255" /\ status # "rejected") =>
            \A i \in 1..Len(gen_info.breaks) :
                OperandIn(gen_info.breaks[i].func, gen_info.breaks[i].at)
                    = gen_info.loops[LoopOf(gen_info.breaks[i])].end
    /\ (input.kind = "source" /\ input.name = "pool_past_255" /\ status # "rejected") =>
            /\ Len(module.constants) > 255
            /\ name_at(module.constants, module.functions[261].program[2]) = str_g
            /\ name_at(module.constants, module.functions[256].program[2]) = str_Hi

\* main of pool_past_255 has run: its `CALL 0` stands for g at index 256 and has
\* called f, which printed the string of 253 bytes
CallReachedOtherFunction ==
    /\ input.kind = "source" /\ input.name = "pool_past_255"
    /\ status = "returned"
    /\ module.functions[261].program = << CALL, 0 >>
    /\ module.functions[256].program = << LDC, 2, VIRTUAL, 2 >>
    /\ stdout = << [kind |-> "str", val |-> str_253] >>

\* the loop of f in loop_past_255 starts at 259 and ends at 263; its GOTO has the
\* operand 3 and its break the operand 7
LoopOperandsTruncated ==
    /\ input.kind = "source" /\ input.name = "loop_past_255"
    /\ status # "rejected"
    /\ gen_info.loops[1].start = 259
    /\ gen_info.loops[1].end = 263
    /\ SubSeq(module.functions[0].program, 260, 263) = << GOTO, 7, GOTO, 3 >>

\* the sources of the model that the parser returns for a text, without an error
\* reported, and that the generator accepts
ParsedSources == {"store_comparison", "fewer_arguments", "void_value"}

\* the bytes the arm of execute for the opcode at the top Vm's index pops
Pops ==
    CASE current(Top) \in {ADD_I, SUB_I, MUL_I, DIV_I, MOD_I, NE, EQ, GT_I, LT_I, GE_I, LE_I, CMP_I} -> 8
      [] current(Top) \in {NEG_I, STO_I, RET_I} -> 4
      [] current(Top) \in {NOT, IF_T, IF_F, IF_NE, IF_EQ, IF_GT, IF_LT, IF_LE, IF_GE} -> 1
      [] current(Top) = CALL /\ Top.index + 1 < Len(Top.program)
                             /\ Operand \in DOMAIN module.functions -> call_len(module, Operand)
      [] current(Top) = VIRTUAL /\ Top.index + 1 < Len(Top.program) /\ Operand \in {0, 3} -> 4
      [] current(Top) = VIRTUAL /\ Top.index + 1 < Len(Top.program) /\ Operand = 2 -> 1
      [] OTHER -> 0

(* C28: the run of main of a module that the parser and the generator       *)
(* produce without reporting an error never pops from an empty stack: at    *)
(* every instruction the stack holds the bytes the instruction pops; this   *)
(* covers storing or returning the result of a comparison, a call with      *)
(* fewer arguments than parameters and a Void call used as a value.         *)
StackHoldsWhatIsPopped ==
    (/\ input.kind = "source"
     /\ input.name \in ParsedSources
     /\ status = "running"
     /\ Top.index < Len(Top.program)) => Len(Top.stack) >= Pops

\* `let a = 1 < 2`: LT_I has pushed one byte and STO_I, which pops four, has panicked
ComparisonStorePanicked ==
    /\ input.kind = "source" /\ input.name = "store_comparison"
    /\ status = "panicked"
    /\ current(Top) = STO_I
    /\ Top.stack = << 1 >>

\* under SpecParser: the parser returns the AST Source(name) for the text of each of
\* the ParsedSources, reports no error, and the generator accepts it
ParsedSourcesAreReturned ==
    (ParseReturned /\ input.kind = "text" /\ input.name \in ParsedSources) =>
        (returned = Source(input.name) /\ stderr = << >> /\ status # "rejected")

\* the relation an opcode of the two branching forms stands for, x the value pushed
\* first and y the value pushed second
Related(op, x, y) ==
    CASE op \in {IF_GT, GT_I} -> x > y
      [] op \in {IF_LT, LT_I} -> x < y
      [] op \in {IF_GE, GE_I} -> x >= y
      [] op \in {IF_LE, LE_I} -> x <= y
      [] op \in {IF_EQ, EQ} -> x = y
      [] op \in {IF_NE, NE} -> x # y

\* a branch program has returned
BranchReturned == input.kind \in {"cmp_branch", "bool_branch"} /\ status = "returned"

\* the branch program returned from the target of its branch
ReturnedFromTarget == result = pop_32(push_i32(<< >>, 1))

(* C29: the two ways of branching on an integer comparison agree: with x     *)
(* pushed and then y, `CMP_I; IF_GT L` (IF_LT, IF_GE, IF_LE, IF_EQ, IF_NE)  *)
(* takes the branch exactly when `GT_I; IF_T L` (LT_I, GE_I, LE_I, EQ, NE)  *)
(* takes it, that is exactly when x > y (<, >=, <=, ==, !=) with the value  *)
(* pushed first as the left operand.                                        *)
BranchFormsAgree ==
    BranchReturned =>
        /\ result \in {pop_32(push_i32(<< >>, 0)), pop_32(push_i32(<< >>, 1))}
        /\ ReturnedFromTarget <=> Related(input.op, input.a, input.b)

\* 0 then 7 pushed: `CMP_I; IF_GT` has taken the branch although 0 > 7 is false
CmpBranchTakenOnLess ==
    /\ BranchReturned
    /\ input.kind = "cmp_branch" /\ input.op = IF_GT
    /\ input.a = 0 /\ input.b = 7
    /\ ReturnedFromTarget

(* C30: Parser::parse terminates on every input: it returns a Block after   *)
(* consuming finitely many tokens and building finitely many AST nodes,     *)
(* also when the input ends, or has an unexpected token, inside the         *)
(* argument list of a function call, as in `f(1` followed by the end of the *)
(* input.                                                                    *)
ParseReturnsABlock == status # "hung"

\* `fn main() { f(1` and the end of the input: the loop of parse_function_call never
\* ends, and parse does not return
CallArgumentsNeverEnd ==
    /\ input.kind = "text" /\ input.name = "call_unclosed"
    /\ status = "hung"
    /\ returned = None

====
